---- MODULE Spec2Model ----
(***************************************************************************)
(* Type inference of crochet (crates/crochet_infer): the type model, the   *)
(* substitution algebra, normalisation, union/intersection simplification, *)
(* pattern and expression inference, and the statement loop of infer_prog. *)
(*                                                                         *)
(* A Type is the record                                                    *)
(*   [k, id, frozen, name, sub, is_call, ts, ret, props]                   *)
(* k is the Variant; ts holds the ordered child types (Lam params, Union / *)
(* Intersection / Tuple members, Alias type_params, the boxed child of     *)
(* Array / Rest / Member); ret holds the boxed return type of a Lam;       *)
(* props the TProps of an Object; name the Primitive, the literal's text,  *)
(* the alias name or the member's property; sub the literal's kind, or     *)
(* "some"/"none" for Alias.type_params.                                    *)
(***************************************************************************)
EXTENDS Integers, Sequences, FiniteSets, TLC

\* ------------------------------------------------------------------ bounds
\* statements of one program
MaxStmts == 2
\* variable ids of the types given to normalize
MaxVarId == 3
\* keys of the substitutions given to compose_subs
MaxKey == 2
\* the count of the Context in which the types given to normalize were built:
\* every id of these types is below it
NormCount == 20

\* ------------------------------------------------------------ type model
Ty(k, id, name, sub, is_call, ts, ret, props) ==
    [k |-> k, id |-> id, frozen |-> FALSE, name |-> name, sub |-> sub,
     is_call |-> is_call, ts |-> ts, ret |-> ret, props |-> props]

TVar(id) == Ty("Var", id, "", "", FALSE, <<>>, <<>>, <<>>)
TLam(id, params, r, is_call) == Ty("Lam", id, "", "", is_call, params, <<r>>, <<>>)
TPrim(id, prim) == Ty("Prim", id, prim, "", FALSE, <<>>, <<>>, <<>>)
TLit(id, kind, val) == Ty("Lit", id, val, kind, FALSE, <<>>, <<>>, <<>>)
TUnion(id, types) == Ty("Union", id, "", "", FALSE, types, <<>>, <<>>)
TIntersection(id, types) == Ty("Intersection", id, "", "", FALSE, types, <<>>, <<>>)
TObject(id, props) == Ty("Object", id, "", "", FALSE, <<>>, <<>>, props)
TAlias(id, name, type_params) == Ty("Alias", id, name, "some", FALSE, type_params, <<>>, <<>>)
TAliasNone(id, name) == Ty("Alias", id, name, "none", FALSE, <<>>, <<>>, <<>>)
TTuple(id, types) == Ty("Tuple", id, "", "", FALSE, types, <<>>, <<>>)
TArray(id, t) == Ty("Array", id, "", "", FALSE, <<t>>, <<>>, <<>>)
TRest(id, t) == Ty("Rest", id, "", "", FALSE, <<t>>, <<>>, <<>>)
TMember(id, obj, prop) == Ty("Member", id, prop, "", FALSE, <<obj>>, <<>>, <<>>)

TProp(name, optional, ty) == [name |-> name, optional |-> optional, ty |-> ty]

Scheme(qualifiers, ty) == [qualifiers |-> qualifiers, ty |-> ty]

\* Scheme::from(ty): a scheme without qualifiers
SchemeFrom(ty) == Scheme(<<>>, ty)

\* ---------------------------------------------------------- seq helpers
\* let x = e; rest, written Let([x \in {e} |-> rest]): e is evaluated once
Let(f) == CHOOSE y \in UNION {{g[x] : x \in DOMAIN g} : g \in {f}} : TRUE

Range(s) == {s[i] : i \in DOMAIN s}

RECURSIVE Flatten(_)
Flatten(ss) == IF ss = <<>> THEN <<>> ELSE Head(ss) \o Flatten(Tail(ss))

Reverse(s) == [i \in 1..Len(s) |-> s[Len(s) + 1 - i]]

RECURSIVE SetToSortedSeq(_)
SetToSortedSeq(S) ==
    IF S = {} THEN <<>>
    ELSE LET m == CHOOSE x \in S : \A y \in S : x <= y
         IN <<m>> \o SetToSortedSeq(S \ {m})

\* ------------------------------------------------- equality and hashing
\* What Hash for Type feeds to the hasher (and what the derived Eq of the
\* variants compares): a Var contributes its id alone, every other type its
\* variant without id and frozen; LamType leaves out is_call.  Two types are
\* the same HashSet / HashMap key iff their keys are equal.
RECURSIVE KeyOf(_)
KeyOf(t) ==
    IF t.k = "Var" THEN TVar(t.id)
    ELSE [t EXCEPT !.id = 0, !.frozen = FALSE, !.is_call = FALSE,
                   !.ts = [i \in DOMAIN t.ts |-> KeyOf(t.ts[i])],
                   !.ret = [i \in DOMAIN t.ret |-> KeyOf(t.ret[i])],
                   !.props = [i \in DOMAIN t.props |->
                                 [t.props[i] EXCEPT !.ty = KeyOf(t.props[i].ty)]]]

TypeEq(a, b) == KeyOf(a) = KeyOf(b)

SchemeEq(a, b) == a.qualifiers = b.qualifiers /\ TypeEq(a.ty, b.ty)

\* HashSet<Type> built by inserting the elements of a sequence in order: the
\* first of several equal elements is kept.
RECURSIVE Dedup(_)
Dedup(s) ==
    IF s = <<>> THEN <<>>
    ELSE Let([r \in {Dedup(SubSeq(s, 1, Len(s) - 1))} |->
         LET x == s[Len(s)]
         IN IF \E i \in DOMAIN r : TypeEq(r[i], x) THEN r ELSE Append(r, x)])

\* ---------------------------------------------------- substitution algebra
EmptySubst == <<>>

\* free type variables of a type
RECURSIVE ftv(_)
ftv(t) ==
    IF t.k = "Var" THEN {t.id}
    ELSE UNION ({ftv(t.ts[i]) : i \in DOMAIN t.ts}
                \cup {ftv(t.ret[i]) : i \in DOMAIN t.ret}
                \cup {ftv(t.props[i].ty) : i \in DOMAIN t.props})

\* free type variables of a scheme: those of its type that it does not bind
ftv_scheme(sc) == ftv(sc.ty) \ Range(sc.qualifiers)

ftv_env(env) == UNION {ftv_scheme(env[n]) : n \in DOMAIN env}

\* apply(Type, Subst): one structural pass; a Var whose id is a key is replaced
\* by the mapped type (which is not visited again)
RECURSIVE apply(_, _)
apply(t, s) ==
    IF t.k = "Var" THEN (IF t.id \in DOMAIN s THEN s[t.id] ELSE t)
    ELSE [t EXCEPT !.ts = [i \in DOMAIN t.ts |-> apply(t.ts[i], s)],
                   !.ret = [i \in DOMAIN t.ret |-> apply(t.ret[i], s)],
                   !.props = [i \in DOMAIN t.props |->
                                 [t.props[i] EXCEPT !.ty = apply(t.props[i].ty, s)]]]

Restrict(s, D) == [i \in (DOMAIN s) \cap D |-> s[i]]

\* applying to a Scheme strips the scheme's qualifiers from the substitution
apply_scheme(sc, s) ==
    Scheme(sc.qualifiers, apply(sc.ty, Restrict(s, (DOMAIN s) \ Range(sc.qualifiers))))

apply_env(env, s) == [n \in DOMAIN env |-> apply_scheme(env[n], s)]

\* compose_subs(s2, s1): every value of s1 with s2 applied, then extend() by
\* s2, which overwrites the entries whose key is already present
compose_subs(s2, s1) ==
    [i \in (DOMAIN s1) \cup (DOMAIN s2) |->
        IF i \in DOMAIN s2 THEN s2[i] ELSE apply(s1[i], s2)]

\* fold from the left, starting from the empty substitution
RECURSIVE compose_many_subs(_)
compose_many_subs(subs) ==
    IF subs = <<>> THEN EmptySubst
    ELSE compose_subs(compose_many_subs(SubSeq(subs, 1, Len(subs) - 1)), subs[Len(subs)])

\* ----------------------------------------------------------------- Context
\* Context { values, types, state.count, is_async }.  minted is the history of
\* the ids handed out by fresh_id in this run, in order; scopes records the
\* exits of Lambda and Let scopes; insts records the calls of instantiate.
\* clone() copies the record, count included (State derives Clone, so the
\* Cell is copied by value); the histories describe the run and are
\* carried along every path.
\* awaits, apps, lams and pats record the calls of infer on an Await, an App
\* and a Lambda and the calls of infer_pattern, each with what it was given
\* and what it returned; mems records the Member expressions in the same way.
\* rets records every Ok that infer returns: the expression, the substitution
\* returned, and values as the arm left it (before) and at the return (after).
\* ifs records every if/else that succeeds: the substitutions of the two
\* branches and the substitution returned.  calls records every call of
\* infer that returns, Ok or Err: the names of values, the types and is_async
\* of the caller's Context at the call and at the return.
\* hseed stands for the random state of the std HashMap / HashSet of this run:
\* 0 iterates a set in insertion order, 1 in the reverse order.
\* ... with is_async set
DefaultContext_async ==
    [values |-> <<>>, types |-> <<>>, count |-> 0, is_async |-> TRUE,
     minted |-> <<>>, scopes |-> <<>>, insts |-> <<>>,
     awaits |-> <<>>, apps |-> <<>>, lams |-> <<>>, pats |-> <<>>, mems |-> <<>>,
     rets |-> <<>>, ifs |-> <<>>, calls |-> <<>>, hseed |-> 0]

DefaultContext ==
    [values |-> <<>>, types |-> <<>>, count |-> 0, is_async |-> FALSE,
     minted |-> <<>>, scopes |-> <<>>, insts |-> <<>>,
     awaits |-> <<>>, apps |-> <<>>, lams |-> <<>>, pats |-> <<>>, mems |-> <<>>,
     rets |-> <<>>, ifs |-> <<>>, calls |-> <<>>, hseed |-> 0]

Insert(env, name, sc) ==
    [n \in (DOMAIN env) \cup {name} |-> IF n = name THEN sc ELSE env[n]]

\* fresh_id: count := count + 1, and the new count is the id
fresh_id(ctx) ==
    [ctx EXCEPT !.count = @ + 1, !.minted = Append(@, ctx.count + 1)]

\* n successive fresh_id calls
RECURSIVE fresh_ids(_, _)
fresh_ids(ctx, n) == IF n = 0 THEN ctx ELSE fresh_ids(fresh_id(ctx), n - 1)

\* the histories of a dropped child context survive in the parent
Histories(parent, child) ==
    [parent EXCEPT !.minted = child.minted, !.scopes = child.scopes,
                   !.insts = child.insts, !.awaits = child.awaits,
                   !.apps = child.apps, !.lams = child.lams, !.pats = child.pats,
                   !.mems = child.mems, !.rets = child.rets,
                   !.ifs = child.ifs, !.calls = child.calls]

\* ... the parent becoming the child
WriteBack_whole(parent, child, kind) ==
    [child EXCEPT
        !.scopes = Append(child.scopes,
                          [kind |-> kind, ok |-> TRUE, before |-> parent.count,
                           child |-> child.count, parent |-> child.count])]

\* ctx.state.count.set(new_ctx.state.count.get())
WriteBack(parent, child, kind) ==
    [Histories(parent, child) EXCEPT
        !.count = child.count,
        !.scopes = Append(child.scopes,
                          [kind |-> kind, ok |-> TRUE, before |-> parent.count,
                           child |-> child.count, parent |-> child.count])]

\* a scope left through the ? operator: the child context is dropped as it is
Dropped(parent, child, kind) ==
    [Histories(parent, child) EXCEPT
        !.scopes = Append(child.scopes,
                          [kind |-> kind, ok |-> FALSE, before |-> parent.count,
                           child |-> child.count, parent |-> parent.count])]

\* --------------------------------------------------------------- results
NoType == TPrim(0, "none")

Ok(ctx, s, t) == [st |-> "ok", msg |-> "", s |-> s, t |-> t, a |-> <<>>, ctx |-> ctx]
OkPat(ctx, s, a, t) == [st |-> "ok", msg |-> "", s |-> s, t |-> t, a |-> a, ctx |-> ctx]
Err(ctx, msg) == [st |-> "err", msg |-> msg, s |-> <<>>, t |-> NoType, a |-> <<>>, ctx |-> ctx]
Panic(ctx, msg) == [st |-> "panic", msg |-> msg, s |-> <<>>, t |-> NoType, a |-> <<>>, ctx |-> ctx]
\* the failure r seen by a caller whose context is ctx
Fail(r, ctx) == [r EXCEPT !.ctx = ctx, !.s = <<>>, !.t = NoType, !.a = <<>>]
\* the result of infer(ctx, expr) with the call entered in the history
Returned(ctx, expr, result) ==
    [result EXCEPT !.ctx.calls =
        Append(@, [node |-> expr, st |-> result.st,
                   names |-> <<DOMAIN ctx.values, DOMAIN result.ctx.values>>,
                   types |-> <<ctx.types, result.ctx.types>>,
                   is_async |-> <<ctx.is_async, result.ctx.is_async>>])]

\* instantiate(scheme): one fresh variable per qualifier, zipped into one
\* substitution that is applied once
instantiate(ctx, scheme) ==
    LET n == Len(scheme.qualifiers)
    IN  Let([c1 \in {fresh_ids(ctx, n)} |->
    LET fresh == [i \in 1..n |-> ctx.count + i]
        \* collect() into the HashMap: a later pair replaces an earlier one
        subs == [q \in Range(scheme.qualifiers) |->
                    TVar(fresh[CHOOSE i \in 1..n :
                                  scheme.qualifiers[i] = q
                                  /\ \A j \in 1..n : scheme.qualifiers[j] = q => j <= i])]
    IN  Let([t \in {apply(scheme.ty, subs)} |->
       [t |-> t,
        ctx |-> [c1 EXCEPT !.insts = Append(@, [quals |-> scheme.qualifiers,
                                                 fresh |-> fresh,
                                                 before |-> ctx.minted,
                                                 ty |-> scheme.ty, result |-> t])]]])])

\* lookup_value(name): self.values.get(name).unwrap(), then instantiate
lookup_value(ctx, name) ==
    IF name \notin DOMAIN ctx.values
    THEN Panic(ctx, "called Option::unwrap() on a None value")
    ELSE Let([r \in {instantiate(ctx, ctx.values[name])} |->
            Ok(r.ctx, EmptySubst, r.t)])

\* lookup_alias(ctx, alias): the definition of the alias, instantiated
lookup_alias(ctx, al) ==
    IF al.name \notin DOMAIN ctx.types
    THEN Err(ctx, "Can not find type alias")
    ELSE LET types == ctx.types
         IN  Let([r \in {instantiate(ctx, types[al.name])} |->
            Ok(r.ctx, EmptySubst, r.t)])

\* ------------------------------------------------------------ unification
UOk(s) == [st |-> "ok", msg |-> "", s |-> s]
UErr(msg) == [st |-> "err", msg |-> msg, s |-> <<>>]

LitKindPrim(kind) ==
    CASE kind = "Num" -> "number"
      [] kind = "Bool" -> "boolean"
      [] kind = "Str" -> "string"
      [] kind = "Null" -> "null"
      [] OTHER -> "undefined"

bind(id, t) ==
    IF t.k = "Var" /\ t.id = id THEN UOk(EmptySubst)
    ELSE IF id \in ftv(t) THEN UErr("InfiniteType")
    ELSE UOk([i \in {id} |-> t])

RECURSIVE unify(_, _)
RECURSIVE unify_many(_, _, _)
RECURSIVE unify_props(_, _, _)
unify_many(ts1, ts2, s) ==
    IF ts1 = <<>> THEN UOk(s)
    ELSE Let([r \in {unify(apply(Head(ts1), s), apply(Head(ts2), s))} |->
            IF r.st # "ok" THEN r
            ELSE unify_many(Tail(ts1), Tail(ts2), compose_subs(r.s, s))])

\* Object against Object: every property of the second object must be a
\* property of the first, and their types must unify; the first object may
\* have more properties
unify_props(t1, props2, s) ==
    IF props2 = <<>> THEN UOk(s)
    ELSE LET p2 == Head(props2)
             found == {i \in DOMAIN t1.props : t1.props[i].name = p2.name}
         IN IF found = {} THEN UErr("Property '" \o p2.name \o "' missing")
            ELSE LET p1 == t1.props[CHOOSE i \in found : \A j \in found : i <= j]
                 IN  Let([r \in {unify(apply(p1.ty, s), apply(p2.ty, s))} |->
                        IF r.st # "ok" THEN r
                        ELSE unify_props(t1, Tail(props2), compose_subs(r.s, s))])

unify(t1, t2) ==
    CASE t1.k = "Var" -> bind(t1.id, t2)
      [] t1.k # "Var" /\ t2.k = "Var" -> bind(t2.id, t1)
      [] t1.k = "Lam" /\ t2.k = "Lam" ->
            IF Len(t1.ts) # Len(t2.ts) THEN UErr("Unification failure")
            ELSE unify_many(t1.ts \o t1.ret, t2.ts \o t2.ret, EmptySubst)
      [] t1.k = "Prim" /\ t2.k = "Prim" ->
            IF t1.name = t2.name THEN UOk(EmptySubst) ELSE UErr("Unification failure")
      [] t1.k = "Lit" /\ t2.k = "Lit" ->
            IF t1.name = t2.name /\ t1.sub = t2.sub THEN UOk(EmptySubst)
            ELSE UErr("Unification failure")
      [] t1.k = "Lit" /\ t2.k = "Prim" ->
            IF LitKindPrim(t1.sub) = t2.name THEN UOk(EmptySubst)
            ELSE UErr("Unification failure")
      [] t1.k = "Prim" /\ t2.k = "Lit" ->
            IF LitKindPrim(t2.sub) = t1.name THEN UOk(EmptySubst)
            ELSE UErr("Unification failure")
      \* Tuple against Tuple: the first tuple may have more elements
      [] t1.k = "Tuple" /\ t2.k = "Tuple" ->
            IF Len(t1.ts) < Len(t2.ts) THEN UErr("too many elements to unpack")
            ELSE unify_many(SubSeq(t1.ts, 1, Len(t2.ts)), t2.ts, EmptySubst)
      [] t1.k = "Object" /\ t2.k = "Object" -> unify_props(t1, t2.props, EmptySubst)
      [] OTHER -> UErr("Unification failure")

\* ------------------------------------------------------- type annotations
\* A type annotation is written as the type it denotes, with id 0 on every
\* node; a reference to a type parameter is an Alias without type_params.
\* infer_type_ann_with_params builds the type through the Context, children
\* first, so that every node gets a fresh id.
RECURSIVE infer_type_ann_with_params(_, _, _)
RECURSIVE infer_type_anns(_, _, _)
infer_type_anns(anns, ctx, type_param_map) ==
    IF anns = <<>> THEN [ts |-> <<>>, ctx |-> ctx]
    ELSE Let([h \in {infer_type_ann_with_params(Head(anns), ctx, type_param_map)} |->
             Let([r \in {infer_type_anns(Tail(anns), h.ctx, type_param_map)} |->
            [ts |-> <<h.t>> \o r.ts, ctx |-> r.ctx]])])

infer_type_ann_with_params(ann, ctx, type_param_map) ==
    IF ann.k = "Alias" /\ ann.sub = "none" /\ ann.name \in DOMAIN type_param_map
    THEN [t |-> type_param_map[ann.name], ctx |-> ctx]
    ELSE Let([a \in {infer_type_anns(ann.ts, ctx, type_param_map)} |->
             Let([b \in {infer_type_anns(ann.ret, a.ctx, type_param_map)} |->
             Let([c \in {infer_type_anns([i \in DOMAIN ann.props |-> ann.props[i].ty],
                                  b.ctx, type_param_map)} |->
         LET c1 == fresh_id(c.ctx)
         IN [t |-> [ann EXCEPT !.id = c1.count, !.ts = a.ts, !.ret = b.ts,
                               !.props = [i \in DOMAIN ann.props |->
                                             [ann.props[i] EXCEPT !.ty = c.ts[i]]]],
             ctx |-> c1]])])])

infer_type_ann(ann, ctx) == infer_type_ann_with_params(ann, ctx, <<>>)

\* ------------------------------------------------------------------ util.rs
\* the order in which a HashSet or HashMap built from seq is iterated
HashOrder(seq, ctx) == IF ctx.hseed = 0 THEN seq ELSE Reverse(seq)

\* sort_by_key(|ty| ty.id): stable insertion sort on the ids
RECURSIVE SortById(_)
SortById(seq) ==
    IF seq = <<>> THEN <<>>
    ELSE Let([r \in {SortById(SubSeq(seq, 1, Len(seq) - 1))} |->
         LET x == seq[Len(seq)]
             n == Cardinality({i \in DOMAIN r : r[i].id <= x.id})
         IN SubSeq(r, 1, n) \o <<x>> \o SubSeq(r, n + 1, Len(r))])

\* the property names of the model in String order
Names ==
    <<"I", "K", "_name", "a", "b", "c", "d", "f", "foo", "g", "n", "p", "result",
      "x", "y", "z">>
NameRank(n) == CHOOSE i \in DOMAIN Names : Names[i] = n

\* sort_by_key(|prop| prop.name.clone()) on props whose names are distinct
RECURSIVE SortByName(_)
SortByName(props) ==
    IF props = <<>> THEN <<>>
    ELSE Let([r \in {SortByName(SubSeq(props, 1, Len(props) - 1))} |->
         LET x == props[Len(props)]
             n == Cardinality({i \in DOMAIN r : NameRank(r[i].name) <= NameRank(x.name)})
         IN SubSeq(r, 1, n) \o <<x>> \o SubSeq(r, n + 1, Len(r))])

\* the distinct elements of a sequence of names, by first occurrence
RECURSIVE DedupNames(_)
DedupNames(s) ==
    IF s = <<>> THEN <<>>
    ELSE Let([r \in {DedupNames(SubSeq(s, 1, Len(s) - 1))} |->
            IF s[Len(s)] \in Range(r) THEN r ELSE Append(r, s[Len(s)])])

\* simplify_intersection, the map over props_map: one TProp per name, an
\* Intersection being minted for a name with several distinct types
RECURSIVE merge_props(_, _, _)
merge_props(names, all_props, ctx) ==
    IF names = <<>> THEN [props |-> <<>>, ctx |-> ctx]
    ELSE LET name == Head(names)
             mine == SelectSeq(all_props, LAMBDA p : p.name = name)
         IN  Let([types \in {HashOrder(Dedup([i \in DOMAIN mine |-> mine[i].ty]), ctx)} |->
         LET c1 == IF Len(types) = 1 THEN ctx ELSE fresh_id(ctx)
             ty == IF Len(types) = 1 THEN types[1] ELSE TIntersection(c1.count, types)
         IN  Let([r \in {merge_props(Tail(names), all_props, c1)} |->
            [props |-> <<TProp(name, FALSE, ty)>> \o r.props, ctx |-> r.ctx]])])

simplify_intersection(in_types, ctx) ==
    LET obj_types == SelectSeq(in_types, LAMBDA t : t.k = "Object")
    IN  Let([all_props \in {Flatten([i \in DOMAIN obj_types |-> obj_types[i].props])} |->
        Let([names \in {HashOrder(DedupNames([i \in DOMAIN all_props |-> all_props[i].name]), ctx)} |->
        Let([m \in {merge_props(names, all_props, ctx)} |->
        Let([props \in {SortByName(m.props)} |->
    LET not_obj_types == SelectSeq(in_types, LAMBDA t : t.k # "Object")
        c1 == IF props # <<>> THEN fresh_id(m.ctx) ELSE m.ctx
    IN  Let([out_types \in {SortById(IF props # <<>>
                              THEN Append(not_obj_types, TObject(c1.count, props))
                              ELSE not_obj_types)} |->
    LET c2 == IF Len(out_types) = 1 THEN c1 ELSE fresh_id(c1)
    IN [t |-> IF Len(out_types) = 1 THEN out_types[1]
              ELSE TIntersection(c2.count, out_types),
        ctx |-> c2]])])])])])

\* ... opening the outermost union only
flatten_types_shallow(ty) == IF ty.k = "Union" THEN ty.ts ELSE <<ty>>

RECURSIVE flatten_types(_)
flatten_types(ty) ==
    IF ty.k = "Union" THEN Flatten([i \in DOMAIN ty.ts |-> flatten_types(ty.ts[i])])
    ELSE <<ty>>

\* union_types: the filter on the literals builds one Prim through the
\* Context for every literal it looks at
\* ... keeping the first type only
union_types_first(t1, t2, ctx) == [t |-> t1, ctx |-> ctx]

union_types(t1, t2, ctx) ==
    Let([types_set \in {HashOrder(Dedup(flatten_types(t1) \o flatten_types(t2)), ctx)} |->
    LET prim_types == SelectSeq(types_set, LAMBDA t : t.k = "Prim")
        covered(t) == \E i \in DOMAIN prim_types : prim_types[i].name = LitKindPrim(t.sub)
        all_lits == SelectSeq(types_set, LAMBDA t : t.k = "Lit")
    IN  Let([c1 \in {fresh_ids(ctx, Len(all_lits))} |->
    LET lit_types == SelectSeq(all_lits, LAMBDA t : ~covered(t))
        rest_types == SelectSeq(types_set, LAMBDA t : t.k \notin {"Prim", "Lit"})
    IN  Let([types \in {SortById(prim_types \o lit_types \o rest_types)} |->
    LET c2 == IF Len(types) > 1 THEN fresh_id(c1) ELSE c1
    IN [t |-> IF Len(types) > 1 THEN TUnion(c2.count, types) ELSE types[1],
        ctx |-> c2]])])])

\* norm_type of normalize: variables are replaced through the mapping, an
\* Intersection is rebuilt by simplify_intersection, every other node keeps
\* its id and frozen flag
RECURSIVE norm_type(_, _, _)
RECURSIVE norm_types(_, _, _)
norm_types(tys, mapping, ctx) ==
    IF tys = <<>> THEN [ts |-> <<>>, ctx |-> ctx]
    ELSE Let([h \in {norm_type(Head(tys), mapping, ctx)} |->
             Let([r \in {norm_types(Tail(tys), mapping, h.ctx)} |->
            [ts |-> <<h.t>> \o r.ts, ctx |-> r.ctx]])])

norm_type(ty, mapping, ctx) ==
    IF ty.k = "Var" THEN [t |-> mapping[ty.id], ctx |-> ctx]
    ELSE Let([a \in {norm_types(ty.ts, mapping, ctx)} |->
             Let([b \in {norm_types(ty.ret, mapping, a.ctx)} |->
             Let([c \in {norm_types([i \in DOMAIN ty.props |-> ty.props[i].ty], mapping, b.ctx)} |->
            IF ty.k = "Intersection" THEN simplify_intersection(a.ts, a.ctx)
            ELSE [t |-> [ty EXCEPT !.ts = a.ts, !.ret = b.ts,
                                   !.props = [i \in DOMAIN ty.props |->
                                                 [ty.props[i] EXCEPT !.ty = c.ts[i]]]],
                  ctx |-> c.ctx]])])])

\* the mapping of normalize: the free variables in ascending order of their
\* ids get the indices 0, 1, ...
norm_mapping_identity(keys) == [id \in Range(keys) |-> TVar(id)]

norm_mapping_descending(keys) ==
    [id \in Range(keys) |-> TVar(Len(keys) - (CHOOSE i \in DOMAIN keys : keys[i] = id))]

norm_mapping(keys) ==
    [id \in Range(keys) |-> TVar((CHOOSE i \in DOMAIN keys : keys[i] = id) - 1)]

normalize(sc, ctx) ==
    Let([keys \in {SetToSortedSeq(ftv(sc.ty))} |->
        Let([r \in {norm_type(sc.ty, norm_mapping(keys), ctx)} |->
       [sc |-> Scheme([i \in 1..Len(keys) |-> i - 1], r.t), ctx |-> r.ctx]])])

generalize(env, ty) == Scheme(SetToSortedSeq(ftv(ty) \ ftv_env(env)), ty)

\* set_frozen(ty, true) on the type and, through freeze, on every child
RECURSIVE freeze(_)
freeze(ty) ==
    [ty EXCEPT !.frozen = TRUE,
               !.ts = [i \in DOMAIN ty.ts |-> freeze(ty.ts[i])],
               !.ret = [i \in DOMAIN ty.ret |-> freeze(ty.ret[i])],
               !.props = [i \in DOMAIN ty.props |->
                             [ty.props[i] EXCEPT !.ty = freeze(ty.props[i].ty)]]]

freeze_scheme(sc) == Scheme(sc.qualifiers, freeze(sc.ty))

\* ---------------------------------------------------------------------- AST
\* Expr, Pattern and Statement of crochet_ast as records of one shape each.
\* es / ps are the ordered children; ann is an Option (a sequence of length
\* 0 or 1); kinds and names describe the props of an Obj or of an Object
\* pattern, and the attributes of a JSXElement.
Ex(k, name, es, pats, flag, ann, names, kinds, sub) ==
    [k |-> k, name |-> name, es |-> es, pats |-> pats, flag |-> flag,
     ann |-> ann, names |-> names, kinds |-> kinds, sub |-> sub]

EApp(lam, args) == Ex("App", "", <<lam>> \o args, <<>>, FALSE, <<>>, <<>>, <<>>, "")
EFix(e) == Ex("Fix", "", <<e>>, <<>>, FALSE, <<>>, <<>>, <<>>, "")
EIdent(name) == Ex("Ident", name, <<>>, <<>>, FALSE, <<>>, <<>>, <<>>, "")
EIfElse(cond, cons, alt) == Ex("IfElse", "", <<cond, cons, alt>>, <<>>, FALSE, <<>>, <<>>, <<>>, "")
EIf(cond, cons) == Ex("IfElse", "", <<cond, cons>>, <<>>, FALSE, <<>>, <<>>, <<>>, "")
EJSXElement(name, attrs, values) == Ex("JSXElement", name, values, <<>>, FALSE, <<>>, attrs, <<>>, "")
ELambda(params, body, is_async) == Ex("Lambda", "", <<body>>, params, is_async, <<>>, <<>>, <<>>, "")
ELambdaAnn(params, body, is_async, rt, type_params) ==
    Ex("Lambda", "", <<body>>, params, is_async, <<rt>>, type_params, <<>>, "")
ELet(pat, init, body) == Ex("Let", "", <<init, body>>, <<pat>>, FALSE, <<>>, <<>>, <<>>, "")
ELetNoPat(init, body) == Ex("Let", "", <<init, body>>, <<>>, FALSE, <<>>, <<>>, <<>>, "")
ELetExpr(pat, e) == Ex("LetExpr", "", <<e>>, <<pat>>, FALSE, <<>>, <<>>, <<>>, "")
ELit(kind, val) == Ex("Lit", val, <<>>, <<>>, FALSE, <<>>, <<>>, <<>>, kind)
EOp(op, l, r) == Ex("Op", op, <<l, r>>, <<>>, FALSE, <<>>, <<>>, <<>>, "")
EObj(kinds, names, es) == Ex("Obj", "", es, <<>>, FALSE, <<>>, names, kinds, "")
EAwait(e) == Ex("Await", "", <<e>>, <<>>, FALSE, <<>>, <<>>, <<>>, "")
ETuple(es) == Ex("Tuple", "", es, <<>>, FALSE, <<>>, <<>>, <<>>, "")
EMember(obj, prop) == Ex("Member", prop, <<obj>>, <<>>, FALSE, <<>>, <<>>, <<>>, "")
EEmpty == Ex("Empty", "", <<>>, <<>>, FALSE, <<>>, <<>>, <<>>, "")

Pa(k, name, ps, ann, names, kinds, sub) ==
    [k |-> k, name |-> name, ps |-> ps, ann |-> ann, names |-> names,
     kinds |-> kinds, sub |-> sub]

PIdent(name) == Pa("Ident", name, <<>>, <<>>, <<>>, <<>>, "")
PIdentAnn(name, ann) == Pa("Ident", name, <<>>, <<ann>>, <<>>, <<>>, "")
PLit(kind, val) == Pa("Lit", val, <<>>, <<>>, <<>>, <<>>, kind)
PIs(id, is_id) == Pa("Is", id, <<>>, <<>>, <<>>, <<>>, is_id)
PRest(arg) == Pa("Rest", "", <<arg>>, <<>>, <<>>, <<>>, "")
PArray(elems) == Pa("Array", "", elems, <<>>, <<>>, <<>>, "")
PArrayAnn(elems, ann) == Pa("Array", "", elems, <<ann>>, <<>>, <<>>, "")
\* a hole of an array pattern (the None element)
PHole == Pa("Hole", "", <<>>, <<>>, <<>>, <<>>, "")
PObject(kinds, names, ps) == Pa("Object", "", ps, <<>>, names, kinds, "")
PObjectAnn(kinds, names, ps, ann) == Pa("Object", "", ps, <<ann>>, names, kinds, "")

St(k, declare, init, pattern, name, ann, type_params) ==
    [k |-> k, declare |-> declare, init |-> init, pattern |-> pattern,
     name |-> name, ann |-> ann, type_params |-> type_params]

SLet(pattern, init) == St("VarDecl", FALSE, <<init>>, pattern, "", <<>>, <<>>)
SLetNoInit(pattern) == St("VarDecl", FALSE, <<>>, pattern, "", <<>>, <<>>)
SDeclare(pattern) == St("VarDecl", TRUE, <<>>, pattern, "", <<>>, <<>>)
STypeDecl(name, ann, type_params) == St("TypeDecl", FALSE, <<>>, PHole, name, <<ann>>, type_params)
SExpr(expr) == St("Expr", FALSE, <<expr>>, PHole, "", <<>>, <<>>)

\* ---------------------------------------------------------- pattern inference
WithAssump(r, a) == [r EXCEPT !.a = a]

RECURSIVE infer_pattern_rec(_, _, _)
RECURSIVE infer_array_elems(_, _, _)
RECURSIVE infer_object_props(_, _, _, _, _)

\* Pattern::Array: the elements in order; collect() stops at the first Err
infer_array_elems(elems, ctx, assump) ==
    IF elems = <<>> THEN [OkPat(ctx, <<>>, assump, NoType) EXCEPT !.s = <<>>]
    ELSE LET elem == Head(elems)
         IN  Let([h \in {IF elem.k = "Hole" THEN Panic(ctx, "not yet implemented")
                  ELSE IF elem.k = "Rest"
                  THEN Let([r \in {infer_pattern_rec(elem.ps[1], ctx, assump)} |->
                          IF r.st # "ok" THEN r
                          ELSE LET c1 == fresh_id(r.ctx)
                               IN OkPat(c1, <<>>, r.a, TRest(c1.count, r.t))])
                  ELSE infer_pattern_rec(elem, ctx, assump)} |->
            IF h.st # "ok" THEN h
            ELSE Let([r \in {infer_array_elems(Tail(elems), h.ctx, h.a)} |->
                    IF r.st # "ok" THEN r
                    \* s carries the element types of this fold
                    ELSE [r EXCEPT !.s = <<h.t>> \o r.s]])])

\* Pattern::Object: the props in order; rest is the Option rest_opt_ty
infer_object_props(pat, i, ctx, assump, rest) ==
    IF i > Len(pat.kinds)
    THEN [st |-> "ok", msg |-> "", props |-> <<>>, rest |-> rest, a |-> assump, ctx |-> ctx]
    ELSE LET bad(r) == [st |-> "panic", msg |-> r.msg, props |-> <<>>, rest |-> rest,
                        a |-> r.a, ctx |-> r.ctx]
         IN
         CASE pat.kinds[i] = "KeyValue" ->
                Let([r \in {infer_pattern_rec(pat.ps[i], ctx, assump)} |->
                   IF r.st # "ok"
                   \* infer_pattern_rec(value, ctx, assump).unwrap()
                   THEN bad(r)
                   ELSE Let([n \in {infer_object_props(pat, i + 1, r.ctx, r.a, rest)} |->
                           [n EXCEPT !.props = <<TProp(pat.names[i], FALSE, r.t)>> \o @]])])
           [] pat.kinds[i] = "Assign" ->
                LET c1 == fresh_id(ctx)
                    tv == TVar(c1.count)
                IN IF pat.names[i] \in DOMAIN assump
                   THEN bad(Panic(c1, "not yet implemented: return an error"))
                   ELSE Let([n \in {infer_object_props(pat, i + 1, c1,
                                     Insert(assump, pat.names[i], SchemeFrom(tv)), rest)} |->
                           [n EXCEPT !.props = <<TProp(pat.names[i], FALSE, tv)>> \o @]])
           [] OTHER ->
                IF rest # <<>>
                THEN bad(Panic(ctx, "Maximum one rest pattern allowed in object patterns"))
                ELSE Let([r \in {infer_pattern_rec(pat.ps[i], ctx, assump)} |->
                        IF r.st = "panic" THEN bad(r)
                        \* .ok(): an Err is dropped, assump stays as it was left
                        ELSE infer_object_props(pat, i + 1, r.ctx, r.a,
                                                IF r.st = "ok" THEN <<r.t>> ELSE <<>>)])

infer_pattern_rec(pat, ctx, assump) ==
    CASE pat.k = "Ident" ->
            LET c1 == fresh_id(ctx)
                tv == TVar(c1.count)
                a == Insert(assump, pat.name, SchemeFrom(tv))
            IN IF pat.name \in DOMAIN assump
               THEN WithAssump(Err(c1, "Duplicate identifier in pattern"), a)
               ELSE OkPat(c1, <<>>, a, tv)
      [] pat.k = "Lit" ->
            LET c1 == fresh_id(ctx)
            IN OkPat(c1, <<>>, assump, TLit(c1.count, pat.sub, pat.name))
      [] pat.k = "Is" ->
            LET c1 == fresh_id(ctx)
                ty == IF pat.sub \in {"string", "number", "boolean"}
                      THEN TPrim(c1.count, pat.sub)
                      ELSE TAliasNone(c1.count, pat.sub)
            IN  Let([a \in {Insert(assump, pat.name, generalize(ctx.types, ty))} |->
               IF pat.name \in DOMAIN assump
               THEN WithAssump(Err(c1, "Duplicate identifier in pattern"), a)
               ELSE OkPat(c1, <<>>, a, ty)])
      [] pat.k = "Rest" -> infer_pattern_rec(pat.ps[1], ctx, assump)
      [] pat.k = "Array" ->
            Let([r \in {infer_array_elems(pat.ps, ctx, assump)} |->
               IF r.st # "ok" THEN [r EXCEPT !.s = <<>>]
               ELSE LET c1 == fresh_id(r.ctx)
                    IN OkPat(c1, <<>>, r.a, TTuple(c1.count, r.s))])
      [] pat.k = "Object" ->
            Let([r \in {infer_object_props(pat, 1, ctx, assump, <<>>)} |->
               IF r.st # "ok" THEN WithAssump(Panic(r.ctx, r.msg), r.a)
               ELSE LET c1 == fresh_id(r.ctx)
                        obj_type == TObject(c1.count, r.props)
                        c2 == fresh_id(c1)
                    IN IF r.rest # <<>>
                       THEN OkPat(c2, <<>>, r.a,
                                  TIntersection(c2.count, <<obj_type, r.rest[1]>>))
                       ELSE OkPat(c1, <<>>, r.a, obj_type)])
      [] OTHER -> Panic(ctx, "not yet implemented")

\* ... that finds no annotation
get_type_ann_none(pat) == <<>>

get_type_ann(pat) == IF pat.k \in {"Ident", "Rest", "Object", "Array"} THEN pat.ann ELSE <<>>

\* ... that returns the structural type of an annotated pattern
infer_pattern_structural(pat, ctx, type_param_map) ==
    Let([r \in {infer_pattern_rec(pat, ctx, <<>>)} |->
    LET ann == get_type_ann(pat)
        seen(res) == [res EXCEPT !.ctx.pats =
                         Append(@, [pat |-> pat, st |-> res.st, t |-> res.t, a |-> res.a,
                                    s |-> res.s, pat_type |-> r.t, new_vars |-> r.a])]
    IN IF r.st # "ok" THEN seen(Fail(r, r.ctx))
       ELSE IF ann = <<>> THEN seen(OkPat(r.ctx, EmptySubst, r.a, r.t))
       ELSE Let([ta \in {infer_type_ann_with_params(ann[1], r.ctx, type_param_map)} |->
                Let([u \in {unify(ta.t, r.t)} |->
               IF u.st # "ok" THEN seen(Err(ta.ctx, u.msg))
               ELSE seen(OkPat(ta.ctx, u.s, apply_env(r.a, u.s), r.t))])])])

\* infer_pattern: the structural type of the pattern, then the annotation
infer_pattern(pat, ctx, type_param_map) ==
    Let([r \in {infer_pattern_rec(pat, ctx, <<>>)} |->
    LET ann == get_type_ann(pat)
        \* the call and its result, added to the history
        seen(res) == [res EXCEPT !.ctx.pats =
                         Append(@, [pat |-> pat, st |-> res.st, t |-> res.t, a |-> res.a,
                                    s |-> res.s, pat_type |-> r.t, new_vars |-> r.a])]
    IN IF r.st # "ok" THEN seen(Fail(r, r.ctx))
       ELSE IF ann = <<>> THEN seen(OkPat(r.ctx, EmptySubst, r.a, r.t))
       ELSE Let([ta \in {infer_type_ann_with_params(ann[1], r.ctx, type_param_map)} |->
                Let([u \in {unify(ta.t, r.t)} |->
               IF u.st # "ok" THEN seen(Err(ta.ctx, u.msg))
               ELSE seen(OkPat(ta.ctx, u.s, apply_env(r.a, u.s), ta.t))])])])

\* ------------------------------------------------------- expression inference
\* names that start with an uppercase character
UpperNames == {"I", "K"}

\* ... that matches nothing
is_promise_never(ty) == FALSE

is_promise(ty) == ty.k = "Alias" /\ ty.name = "Promise"

SeqOk(ctx, ss, ts) == [st |-> "ok", msg |-> "", ss |-> ss, ts |-> ts, ctx |-> ctx]
SeqFail(r) == [st |-> r.st, msg |-> r.msg, ss |-> <<>>, ts |-> <<>>, ctx |-> r.ctx]

\* TProp::get_type
get_type(prop, ctx) ==
    IF prop.optional
    THEN LET c1 == fresh_id(ctx)
             c2 == fresh_id(c1)
         IN [t |-> TUnion(c2.count, <<prop.ty, TPrim(c1.count, "undefined")>>), ctx |-> c2]
    ELSE [t |-> prop.ty, ctx |-> ctx]

unwrap_member_type(t, ctx) ==
    IF t.k = "Member" /\ t.ts[1].k = "Object"
       /\ \E i \in DOMAIN t.ts[1].props : t.ts[1].props[i].name = t.name
    THEN LET props == t.ts[1].props
             i == CHOOSE j \in DOMAIN props :
                     props[j].name = t.name /\ \A m \in 1..(j - 1) : props[m].name # t.name
         IN get_type(props[i], ctx)
    ELSE [t |-> t, ctx |-> ctx]

RECURSIVE infer_property_type(_, _, _)
infer_property_type(obj_t, prop, ctx) ==
    CASE obj_t.k = "Object" ->
            LET c1 == fresh_id(ctx)
                mem_t == TMember(c1.count, obj_t, prop)
            IN IF \E i \in DOMAIN obj_t.props : obj_t.props[i].name = prop
               THEN Ok(c1, EmptySubst, mem_t)
               ELSE Err(c1, "Record literal doesn't contain property")
      [] obj_t.k = "Alias" ->
            Let([r \in {lookup_alias(ctx, obj_t)} |->
               IF r.st # "ok" THEN r ELSE infer_property_type(r.t, prop, r.ctx)])
      [] OTHER -> Panic(ctx, "not yet implemented: Unhandled type in infer_property_type")

RECURSIVE infer(_, _)
RECURSIVE infer_args(_, _)
RECURSIVE infer_all(_, _)
RECURSIVE infer_params(_, _, _)
RECURSIVE infer_obj_props(_, _, _)
RECURSIVE infer_pattern_and_init(_, _, _, _)
RECURSIVE infer_let(_, _, _, _, _)

\* args.iter().filter_map(|arg| infer(ctx, arg).ok()): an argument that fails
\* is left out; the context stays as the failed call left it
\* all lists the outcome of every argument that was inferred
infer_args(args, ctx) ==
    IF args = <<>>
    THEN [st |-> "ok", msg |-> "", ss |-> <<>>, ts |-> <<>>, ctx |-> ctx, all |-> <<>>]
    ELSE Let([h \in {infer(ctx, Head(args))} |->
         LET outcome == [st |-> h.st, s |-> h.s, t |-> h.t]
         IN IF h.st = "panic"
            THEN [st |-> h.st, msg |-> h.msg, ss |-> <<>>, ts |-> <<>>, ctx |-> h.ctx,
                  all |-> <<outcome>>]
            ELSE Let([r \in {infer_args(Tail(args), h.ctx)} |->
                 LET r1 == [r EXCEPT !.all = <<outcome>> \o @]
                 IN IF r.st # "ok" \/ h.st = "err" THEN r1
                    ELSE [r1 EXCEPT !.ss = <<h.s>> \o @, !.ts = <<h.t>> \o @]])])

\* elems.iter().map(|elem| infer(ctx, elem)).collect(): stops at the first Err
infer_all(es, ctx) ==
    IF es = <<>> THEN SeqOk(ctx, <<>>, <<>>)
    ELSE Let([h \in {infer(ctx, Head(es))} |->
            IF h.st # "ok" THEN SeqFail(h)
            ELSE Let([r \in {infer_all(Tail(es), h.ctx)} |->
                    IF r.st # "ok" THEN r
                    ELSE [r EXCEPT !.ss = <<h.s>> \o @, !.ts = <<h.t>> \o @]])])

\* the parameter patterns of a Lambda, in the child context
infer_params(params, new_ctx, type_params_map) ==
    IF params = <<>> THEN SeqOk(new_ctx, <<>>, <<>>)
    ELSE Let([h \in {infer_pattern(Head(params), new_ctx, type_params_map)} |->
            IF h.st # "ok" THEN SeqFail(h)
            ELSE LET c1 == [h.ctx EXCEPT !.values =
                               [n \in (DOMAIN h.ctx.values) \cup (DOMAIN h.a) |->
                                   IF n \in DOMAIN h.a THEN h.a[n] ELSE h.ctx.values[n]]]
                 IN  Let([r \in {infer_params(Tail(params), c1, type_params_map)} |->
                    IF r.st # "ok" THEN r
                    ELSE [r EXCEPT !.ss = <<h.s>> \o @, !.ts = <<h.t>> \o @]])])

\* the props of an Obj from index i on; ts collects the TProps, the spread
\* types are returned in spreads
infer_obj_props(e, i, ctx) ==
    IF i > Len(e.kinds)
    THEN [st |-> "ok", msg |-> "", ss |-> <<>>, ts |-> <<>>, spreads |-> <<>>, ctx |-> ctx]
    ELSE Let([h \in {IF e.kinds[i] = "Shorthand" THEN lookup_value(ctx, e.names[i])
                  ELSE infer(ctx, e.es[i])} |->
            IF h.st # "ok"
            THEN [st |-> h.st, msg |-> h.msg, ss |-> <<>>, ts |-> <<>>, spreads |-> <<>>,
                  ctx |-> h.ctx]
            ELSE Let([r \in {infer_obj_props(e, i + 1, h.ctx)} |->
                    IF r.st # "ok" THEN r
                    ELSE CASE e.kinds[i] = "Shorthand" ->
                                [r EXCEPT !.ts = <<TProp(e.names[i], FALSE, h.t)>> \o @]
                           [] e.kinds[i] = "KeyValue" ->
                                [r EXCEPT !.ss = <<h.s>> \o @,
                                          !.ts = <<TProp(e.names[i], FALSE, h.t)>> \o @]
                           [] OTHER ->
                                [r EXCEPT !.ss = <<h.s>> \o @, !.spreads = <<h.t>> \o @]])])

\* ... that unifies in the direction of PatternUsage::Match
infer_pattern_and_init_match(pat, init, ctx, pu) ==
    Let([p \in {infer_pattern(pat, ctx, <<>>)} |->
       IF p.st # "ok" THEN p
       ELSE Let([i \in {infer(p.ctx, init)} |->
               IF i.st # "ok" THEN i
               ELSE Let([u \in {unify(p.t, i.t)} |->
                       IF u.st # "ok" THEN Err(i.ctx, u.msg)
                       ELSE Let([s \in {compose_many_subs(<<i.s, p.s, u.s>>)} |->
                               OkPat(i.ctx, s, apply_env(p.a, s), NoType)])])])])

infer_pattern_and_init(pat, init, ctx, pu) ==
    Let([p \in {infer_pattern(pat, ctx, <<>>)} |->
       IF p.st # "ok" THEN p
       ELSE Let([i \in {infer(p.ctx, init)} |->
               IF i.st # "ok" THEN i
               ELSE Let([u \in {IF pu = "Assign" THEN unify(i.t, p.t) ELSE unify(p.t, i.t)} |->
                       IF u.st # "ok" THEN Err(i.ctx, u.msg)
                       ELSE Let([s \in {compose_many_subs(<<i.s, p.s, u.s>>)} |->
                               OkPat(i.ctx, s, apply_env(p.a, s), NoType)])])])])

infer_let(pat, init, body, ctx, pu) ==
    \* new_ctx = ctx.clone()
    Let([pi \in {infer_pattern_and_init(pat, init, ctx, pu)} |->
       IF pi.st # "ok" THEN Fail(pi, Dropped(ctx, pi.ctx, "Let"))
       ELSE LET new_ctx == [pi.ctx EXCEPT !.values =
                               [n \in (DOMAIN pi.ctx.values) \cup (DOMAIN pi.a) |->
                                   IF n \in DOMAIN pi.a THEN pi.a[n] ELSE pi.ctx.values[n]]]
            IN  Let([b \in {infer(new_ctx, body)} |->
               IF b.st # "ok" THEN Fail(b, Dropped(ctx, b.ctx, "Let"))
               ELSE Ok(WriteBack(ctx, b.ctx, "Let"), compose_subs(b.s, pi.s), b.t)])])

\* Expr::JSXElement with an uppercase name: every exit of this arm is a
\* return from infer itself
infer_jsx_component(ctx, expr) ==
    IF expr.name \notin DOMAIN ctx.values
    THEN Err(ctx, "Component is not in scope")
    ELSE Let([i \in {instantiate(ctx, ctx.values[expr.name])} |->
            IF i.t.k # "Lam" THEN Err(i.ctx, "Component must be a function")
            ELSE Let([at \in {infer_all(expr.es, i.ctx)} |->
                    IF at.st # "ok" THEN [Err(at.ctx, at.msg) EXCEPT !.st = at.st]
                    ELSE LET c1 == fresh_id(at.ctx)
                             ret_type == TAliasNone(c1.count, "JSXElement")
                             c2 == fresh_id(c1)
                             c3 == fresh_id(c2)
                             props == [j \in DOMAIN at.ts |->
                                          TProp(expr.names[j], FALSE, at.ts[j])]
                             call_type == TLam(c2.count, <<TObject(c3.count, props)>>,
                                               ret_type, TRUE)
                         IN  Let([s1 \in {compose_many_subs(at.ss)} |->
                             Let([u \in {unify(call_type, i.t)} |->
                            IF u.st # "ok" THEN Err(c3, u.msg)
                            ELSE Ok(c3, compose_subs(u.s, s1), ret_type)])])])])

infer_app(ctx, expr) ==
    Let([l \in {infer(ctx, expr.es[1])} |->
       IF l.st # "ok" THEN l
       ELSE Let([a \in {infer_args(Tail(expr.es), l.ctx)} |->
            \* the call and its result, added to the history
            LET seen(res, params, unified, ss) ==
                    [res EXCEPT !.ctx.apps =
                        Append(@, [node |-> expr, args |-> a.all, params |-> params,
                                   unified |-> unified, ss |-> ss, lam_s |-> l.s,
                                   st |-> res.st])]
            IN IF a.st # "ok" THEN seen(Panic(a.ctx, a.msg), <<>>, FALSE, <<>>)
               ELSE LET c1 == fresh_id(a.ctx)
                        ret_type == TVar(c1.count)
                        c2 == fresh_id(c1)
                        call_type == TLam(c2.count, a.ts, ret_type, TRUE)
                    IN  Let([u \in {unify(call_type, l.t)} |->
                       IF u.st # "ok" THEN seen(Err(c2, u.msg), call_type.ts, FALSE, <<>>)
                       ELSE LET ss == <<u.s>> \o a.ss \o <<l.s>>
                            IN  Let([s \in {compose_many_subs(ss)} |->
                               seen(Ok(c2, s, apply(ret_type, s)), call_type.ts, TRUE,
                                    ss)])])])])

infer_fix(ctx, expr) ==
    Let([r \in {infer(ctx, expr.es[1])} |->
       IF r.st # "ok" THEN r
       ELSE LET c1 == fresh_id(r.ctx)
                tv == TVar(c1.count)
                c2 == fresh_id(c1)
            IN  Let([u \in {unify(TLam(c2.count, <<tv>>, tv, FALSE), r.t)} |->
               IF u.st # "ok" THEN Err(c2, u.msg)
               ELSE Ok(c2, compose_subs(u.s, r.s), apply(tv, u.s))])])

\* ... the error of the unification returned as it is
NoValueMsg_unify == "Unification failure"

NoValueMsg == "Consequent for 'if' without 'else' must not return a value"

infer_if_else(ctx, expr) ==
    LET cond == expr.es[1]
        consequent == expr.es[2]
    IN IF Len(expr.es) = 3
       THEN IF cond.k = "LetExpr"
            THEN Let([r1 \in {infer_let(cond.pats[1], cond.es[1], consequent, ctx, "Match")} |->
                    IF r1.st # "ok" THEN r1
                    ELSE Let([r2 \in {infer(r1.ctx, expr.es[3])} |->
                            IF r2.st # "ok" THEN r2
                            ELSE Let([u \in {union_types(r1.t, r2.t, r2.ctx)} |->
                                 Let([s \in {compose_many_subs(<<r1.s, r2.s>>)} |->
                                    Ok([u.ctx EXCEPT !.ifs =
                                           Append(@, [node |-> expr, s_then |-> r1.s,
                                                      s_else |-> r2.s, s |-> s])],
                                       s, u.t)])])])])
            ELSE Let([r1 \in {infer(ctx, cond)} |->
                    IF r1.st # "ok" THEN r1
                    ELSE Let([r2 \in {infer(r1.ctx, consequent)} |->
                            IF r2.st # "ok" THEN r2
                            ELSE Let([r3 \in {infer(r2.ctx, expr.es[3])} |->
                                    IF r3.st # "ok" THEN r3
                                    ELSE LET c1 == fresh_id(r3.ctx)
                                         IN  Let([s4 \in {unify(r1.t, TPrim(c1.count, "boolean"))} |->
                                             Let([u \in {union_types(r2.t, r3.t, c1)} |->
                                            IF s4.st # "ok" THEN Err(c1, s4.msg)
                                            ELSE Let([s \in {compose_many_subs(
                                                                <<r1.s, r2.s, r3.s, s4.s>>)} |->
                                                 Ok([u.ctx EXCEPT !.ifs =
                                                        Append(@, [node |-> expr,
                                                                   s_then |-> r2.s,
                                                                   s_else |-> r3.s,
                                                                   s |-> s])],
                                                    s, u.t)])])])])])])
       ELSE IF cond.k = "LetExpr"
            THEN Let([r1 \in {infer_let(cond.pats[1], cond.es[1], consequent, ctx, "Match")} |->
                    IF r1.st # "ok" THEN r1
                    ELSE LET c1 == fresh_id(r1.ctx)
                         IN  Let([s2 \in {unify(r1.t, TPrim(c1.count, "undefined"))} |->
                            IF s2.st # "ok" THEN Err(c1, NoValueMsg)
                            ELSE Ok(c1, compose_subs(s2.s, r1.s), r1.t)])])
            ELSE Let([r1 \in {infer(ctx, cond)} |->
                    IF r1.st # "ok" THEN r1
                    ELSE Let([r2 \in {infer(r1.ctx, consequent)} |->
                            IF r2.st # "ok" THEN r2
                            ELSE LET c1 == fresh_id(r2.ctx)
                                 IN  Let([s3 \in {unify(r1.t, TPrim(c1.count, "boolean"))} |->
                                 LET c2 == fresh_id(c1)
                                 IN  Let([s4 \in {unify(r2.t, TPrim(c2.count, "undefined"))} |->
                                    IF s3.st # "ok" THEN Err(c1, s3.msg)
                                    ELSE IF s4.st # "ok" THEN Err(c2, NoValueMsg)
                                    ELSE Ok(c2, compose_many_subs(<<r1.s, r2.s, s3.s, s4.s>>),
                                            r2.t)])])])])

infer_lambda(ctx, expr) ==
    LET cloned == [ctx EXCEPT !.is_async = expr.flag]
        n == Len(expr.names)
    IN  Let([new_ctx \in {fresh_ids(cloned, n)} |->
    LET type_params_map == [nm \in Range(expr.names) |->
                               TVar(cloned.count
                                    + (CHOOSE i \in 1..n : expr.names[i] = nm
                                          /\ \A j \in 1..n : expr.names[j] = nm => j <= i))]
    IN  Let([ps \in {infer_params(expr.pats, new_ctx, type_params_map)} |->
       IF ps.st # "ok" THEN [Err(Dropped(ctx, ps.ctx, "Lambda"), ps.msg) EXCEPT !.st = ps.st]
       ELSE Let([b \in {infer(ps.ctx, expr.es[1])} |->
               IF b.st # "ok" THEN Fail(b, Dropped(ctx, b.ctx, "Lambda"))
               ELSE LET c0 == WriteBack(ctx, b.ctx, "Lambda")
                        cw == IF expr.flag /\ ~is_promise(b.t) THEN fresh_id(c0) ELSE c0
                        rt == IF expr.flag /\ ~is_promise(b.t)
                              THEN TAlias(cw.count, "Promise", <<b.t>>) ELSE b.t
                        \* the lambda, the type of its body and its return type,
                        \* added to the history
                        c1 == [cw EXCEPT !.lams = Append(@, [node |-> expr, body |-> b.t,
                                                             rt |-> rt])]
                    IN  Let([ta \in {IF expr.ann = <<>> THEN [t |-> NoType, ctx |-> c1]
                              ELSE infer_type_ann_with_params(expr.ann[1], c1, type_params_map)} |->
                        Let([u \in {IF expr.ann = <<>> THEN UOk(EmptySubst) ELSE unify(rt, ta.t)} |->
                    LET c2 == fresh_id(ta.ctx)
                        t == TLam(c2.count, ps.ts, rt, FALSE)
                    IN IF u.st # "ok" THEN Err(ta.ctx, u.msg)
                       ELSE Let([s \in {compose_subs(u.s, compose_subs(b.s, compose_many_subs(ps.ss)))} |->
                               Ok(c2, s, apply(t, s))])])])])])])

infer_op(ctx, expr) ==
    Let([r1 \in {infer(ctx, expr.es[1])} |->
       IF r1.st # "ok" THEN r1
       ELSE Let([r2 \in {infer(r1.ctx, expr.es[2])} |->
               IF r2.st # "ok" THEN r2
               ELSE LET c1 == fresh_id(r2.ctx)
                    IN  Let([s3 \in {unify(r1.t, TPrim(c1.count, "number"))} |->
                    LET c2 == fresh_id(c1)
                    IN  Let([s4 \in {unify(r2.t, TPrim(c2.count, "number"))} |->
                    LET c3 == fresh_id(c2)
                        t == IF expr.name \in {"Add", "Sub", "Mul", "Div"}
                             THEN TPrim(c3.count, "number") ELSE TPrim(c3.count, "boolean")
                    IN IF s3.st # "ok" THEN Err(c1, s3.msg)
                       ELSE IF s4.st # "ok" THEN Err(c2, s4.msg)
                       ELSE Ok(c3, compose_many_subs(<<r1.s, r2.s, s3.s, s4.s>>), t)])])])])

infer_obj(ctx, expr) ==
    Let([r \in {infer_obj_props(expr, 1, ctx)} |->
       IF r.st # "ok" THEN [Err(r.ctx, r.msg) EXCEPT !.st = r.st]
       ELSE Let([s \in {compose_many_subs(r.ss)} |->
            LET c1 == fresh_id(r.ctx)
                obj == TObject(c1.count, r.ts)
            IN IF r.spreads = <<>> THEN Ok(c1, s, obj)
               ELSE Let([si \in {simplify_intersection(Append(r.spreads, obj), c1)} |->
                       Ok(si.ctx, s, si.t)])])])

\* (the message of the code has backquotes around await)
AwaitMsg == "Can't use await inside non-async lambda"

infer_await(ctx, expr) ==
    \* the call and its result, added to the history; t1 is the type of the
    \* operand, s2 the unifier
    LET seen(res, t1, s2) ==
            [res EXCEPT !.ctx.awaits =
                Append(@, [node |-> expr, st |-> res.st, msg |-> res.msg, t |-> res.t,
                           t1 |-> t1, s2 |-> s2, before |-> Len(ctx.minted),
                           after |-> Len(res.ctx.minted)])]
    IN
    IF ~ctx.is_async THEN seen(Err(ctx, AwaitMsg), NoType, <<>>)
    ELSE Let([r \in {infer(ctx, expr.es[1])} |->
            IF r.st # "ok" THEN seen(r, NoType, <<>>)
            ELSE LET c1 == fresh_id(r.ctx)
                     wrapped_type == TVar(c1.count)
                     c2 == fresh_id(c1)
                     promise_type == TAlias(c2.count, "Promise", <<wrapped_type>>)
                 IN  Let([u \in {unify(r.t, promise_type)} |->
                    IF u.st # "ok" THEN seen(Err(c2, u.msg), r.t, <<>>)
                    ELSE seen(Ok(c2, compose_subs(u.s, r.s), wrapped_type), r.t, u.s)])])

infer_tuple(ctx, expr) ==
    Let([r \in {infer_all(expr.es, ctx)} |->
       IF r.st # "ok" THEN [Err(r.ctx, r.msg) EXCEPT !.st = r.st]
       ELSE LET c1 == fresh_id(r.ctx)
            IN Ok(c1, compose_many_subs(r.ss), TTuple(c1.count, r.ts))])

infer_member(ctx, expr) ==
    Let([o \in {infer(ctx, expr.es[1])} |->
       IF o.st # "ok" THEN o
       ELSE Let([pr \in {infer_property_type(o.t, expr.name, o.ctx)} |->
               \* the call and its result, added to the history
               LET seen(res) == [res EXCEPT !.ctx.mems =
                                    Append(@, [node |-> expr, obj_t |-> o.t,
                                               types |-> ctx.types,
                                               st |-> res.st, t |-> res.t])]
               IN IF pr.st # "ok" THEN seen(pr)
                  ELSE LET u == unwrap_member_type(pr.t, pr.ctx)
                       IN seen(Ok(u.ctx, compose_subs(pr.s, o.s), u.t))])])

infer(ctx, expr) ==
    IF expr.k = "JSXElement" /\ expr.name \in UpperNames
    THEN Let([result \in {infer_jsx_component(ctx, expr)} |->
            IF result.st # "ok" THEN Returned(ctx, expr, result)
            ELSE Returned(ctx, expr,
                    [result EXCEPT !.ctx.rets =
                        Append(@, [node |-> expr, s |-> result.s,
                                   before |-> result.ctx.values,
                                   after |-> result.ctx.values])])])
    ELSE
    Let([result \in {CASE expr.k = "App" -> infer_app(ctx, expr)
            [] expr.k = "Fix" -> infer_fix(ctx, expr)
            [] expr.k = "Ident" -> lookup_value(ctx, expr.name)
            [] expr.k = "IfElse" -> infer_if_else(ctx, expr)
            [] expr.k = "JSXElement" ->
                  LET c1 == fresh_id(ctx)
                  IN Ok(c1, EmptySubst, TAliasNone(c1.count, "JSXElement"))
            [] expr.k = "Lambda" -> infer_lambda(ctx, expr)
            [] expr.k = "Let" ->
                  IF expr.pats # <<>>
                  THEN infer_let(expr.pats[1], expr.es[1], expr.es[2], ctx, "Assign")
                  ELSE infer(ctx, expr.es[2])
            [] expr.k = "LetExpr" ->
                  Panic(ctx, "Unexpected LetExpr.  All LetExprs should be handled by IfElse arm.")
            [] expr.k = "Lit" ->
                  LET c1 == fresh_id(ctx)
                  IN Ok(c1, EmptySubst, TLit(c1.count, expr.sub, expr.name))
            [] expr.k = "Op" -> infer_op(ctx, expr)
            [] expr.k = "Obj" -> infer_obj(ctx, expr)
            [] expr.k = "Await" -> infer_await(ctx, expr)
            [] expr.k = "Tuple" -> infer_tuple(ctx, expr)
            [] expr.k = "Member" -> infer_member(ctx, expr)
            [] OTHER ->
                  LET c1 == fresh_id(ctx)
                  IN Ok(c1, EmptySubst, TPrim(c1.count, "undefined"))} |->
       IF result.st # "ok" THEN Returned(ctx, expr, result)
       \* the substitution is applied to every binding of ctx.values
       ELSE Let([values \in {apply_env(result.ctx.values, result.s)} |->
               Returned(ctx, expr,
                  [result EXCEPT !.ctx.values = values,
                                 !.ctx.rets = Append(@, [node |-> expr, s |-> result.s,
                                                         before |-> result.ctx.values,
                                                         after |-> values])])])])

\* close_over: generalize in the empty environment, then normalize
close_over(s, t, ctx) == normalize(generalize(<<>>, apply(t, s)), ctx)

\* ------------------------------------------------------------------- inputs
Lit5 == ELit("Num", "5")
Lit10 == ELit("Num", "10")
LitHello == ELit("Str", "hello")
LamI == ELambda(<<PIdent("x")>>, EIdent("x"), FALSE)
LamK == ELambda(<<PIdent("x")>>, ELambda(<<PIdent("y")>>, EIdent("x"), FALSE), FALSE)
\* (x) => await x, not async: the body fails after x got its variable
LamBadAwait == ELambda(<<PIdent("x")>>, EAwait(EIdent("x")), FALSE)
LamAsync == ELambda(<<PIdent("x")>>, EAwait(EIdent("x")), TRUE)
\* let a = 5 in await a: the body of the let fails
LetBadAwait == ELet(PIdent("a"), Lit5, EAwait(EIdent("a")))
\* (f) => (x) => (y) => f(y)(x)
LamFlip ==
    ELambda(<<PIdent("f")>>,
        ELambda(<<PIdent("x")>>,
            ELambda(<<PIdent("y")>>,
                EApp(EApp(EIdent("f"), <<EIdent("y")>>), <<EIdent("x")>>), FALSE),
            FALSE),
        FALSE)
ObjX == EObj(<<"KeyValue">>, <<"x">>, <<Lit5>>)
ObjSpread == EObj(<<"Spread", "KeyValue">>, <<"", "y">>, <<ObjX, Lit10>>)
AnnNumToNum == TLam(0, <<TPrim(0, "number")>>, TPrim(0, "number"), FALSE)
\* async (x) => (y) => await y
AsyncOuterPlainInner ==
    ELambda(<<PIdent("x")>>, ELambda(<<PIdent("y")>>, EAwait(EIdent("y")), FALSE), TRUE)
\* (x) => async (y) => await y
PlainOuterAsyncInner ==
    ELambda(<<PIdent("x")>>, ELambda(<<PIdent("y")>>, EAwait(EIdent("y")), TRUE), FALSE)
\* async (p) => {let y = 5; await p}
AsyncLetAwait ==
    ELambda(<<PIdent("p")>>, ELet(PIdent("y"), Lit5, EAwait(EIdent("p"))), TRUE)
\* async (p) => {let y = await p; p}
AsyncReturnsPromise ==
    ELambda(<<PIdent("p")>>, ELet(PIdent("y"), EAwait(EIdent("p")), EIdent("p")), TRUE)
AwaitExprs ==
    {AsyncOuterPlainInner, PlainOuterAsyncInner, AsyncLetAwait, AsyncReturnsPromise,
     EAwait(EIdent("z")),
     ELambda(<<>>, EAwait(Lit5), TRUE)}
AnnPromiseNum == TAlias(0, "Promise", <<TPrim(0, "number")>>)
\* async () => 5
AsyncFive == ELambda(<<>>, Lit5, TRUE)
\* async (x: Promise<number>) => x
AsyncIdPromise == ELambda(<<PIdentAnn("x", AnnPromiseNum)>>, EIdent("x"), TRUE)
\* (x: Promise<number>) => x
PlainIdPromise == ELambda(<<PIdentAnn("x", AnnPromiseNum)>>, EIdent("x"), FALSE)
\* async (x) => async (y) => y
AsyncAsync == ELambda(<<PIdent("x")>>, ELambda(<<PIdent("y")>>, EIdent("y"), TRUE), TRUE)
PromiseExprs == {AsyncFive, AsyncIdPromise, PlainIdPromise, AsyncAsync}
\* (f) => f(z), (f) => f(5, z): an argument that is not bound
AppUnboundArg == ELambda(<<PIdent("f")>>, EApp(EIdent("f"), <<EIdent("z")>>), FALSE)
AppLitAndUnboundArg ==
    ELambda(<<PIdent("f")>>, EApp(EIdent("f"), <<Lit5, EIdent("z")>>), FALSE)
\* ((x) => x)(5, await 5), ((x) => x)(await 5): an argument that returns Err
AppIdLitAndAwait == EApp(ELambda(<<PIdent("x")>>, EIdent("x"), FALSE), <<Lit5, EAwait(Lit5)>>)
AppIdAwait == EApp(ELambda(<<PIdent("x")>>, EIdent("x"), FALSE), <<EAwait(Lit5)>>)
AppExprs == {AppUnboundArg, AppLitAndUnboundArg, AppIdLitAndAwait, AppIdAwait}
\* patterns that introduce the name x twice:
\* [x, x], [x is number, x], {x, ...x}, {a: x, b: x}, {x, x}, {a: x, ...x}
DupArray == PArray(<<PIdent("x"), PIdent("x")>>)
DupIsArray == PArray(<<PIs("x", "number"), PIdent("x")>>)
DupAssignRest == PObject(<<"Assign", "Rest">>, <<"x", "">>, <<PHole, PIdent("x")>>)
DupKeyValue == PObject(<<"KeyValue", "KeyValue">>, <<"a", "b">>, <<PIdent("x"), PIdent("x")>>)
DupAssign == PObject(<<"Assign", "Assign">>, <<"x", "x">>, <<PHole, PHole>>)
DupKeyValueRest == PObject(<<"KeyValue", "Rest">>, <<"a", "">>, <<PIdent("x"), PIdent("x")>>)
DupPats == {DupArray, DupIsArray, DupAssignRest, DupKeyValue, DupAssign, DupKeyValueRest}
\* (pat) => 5 for each of them, and for [x, y] and {x, ...y}
DupExprs ==
    {ELambda(<<p>>, Lit5, FALSE) :
        p \in DupPats \cup {PArray(<<PIdent("x"), PIdent("y")>>),
                            PObject(<<"Assign", "Rest">>, <<"x", "">>, <<PHole, PIdent("y")>>)}}
Lit15 == ELit("Num", "15")
AnnNum == TPrim(0, "number")
\* {x: number, y: number} and [string, boolean]
AnnXYNum == TObject(0, <<TProp("x", FALSE, AnnNum), TProp("y", FALSE, AnnNum)>>)
AnnStrBool == TTuple(0, <<TPrim(0, "string"), TPrim(0, "boolean")>>)
\* {x: 5, y: 10, z: 15}, {x: 5, y: 10}
ObjXYZ == EObj(<<"KeyValue", "KeyValue", "KeyValue">>, <<"x", "y", "z">>, <<Lit5, Lit10, Lit15>>)
ObjXY == EObj(<<"KeyValue", "KeyValue">>, <<"x", "y">>, <<Lit5, Lit10>>)
\* let p: {x: number, y: number} = {x: 5, y: 10, z: 15}
LetPAnnXYZ == SLet(PIdentAnn("p", AnnXYNum), ObjXYZ)
\* let a: number = 5
LetAAnn == SLet(PIdentAnn("a", AnnNum), Lit5)
\* () => {let x: number = 5; x}
InnerLetAnn == ELambda(<<>>, ELet(PIdentAnn("x", AnnNum), Lit5, EIdent("x")), FALSE)
\* ([x]: [string, boolean]) => x
LamIncompleteAnn == ELambda(<<PArrayAnn(<<PIdent("x")>>, AnnStrBool)>>, EIdent("x"), FALSE)
\* ([x, y]: [string, boolean]) => [x, y]
LamTupleAnn ==
    ELambda(<<PArrayAnn(<<PIdent("x"), PIdent("y")>>, AnnStrBool)>>,
            ETuple(<<EIdent("x"), EIdent("y")>>), FALSE)
\* (x: number) => x
LamIdAnn == ELambda(<<PIdentAnn("x", AnnNum)>>, EIdent("x"), FALSE)
AnnExprs == {InnerLetAnn, LamIncompleteAnn, LamTupleAnn, LamIdAnn}
\* [5, true, "hello"]
Tuple3 == ETuple(<<Lit5, ELit("Bool", "true"), LitHello>>)
\* let [a, b] = [5, true, "hello"]
LetTuple2 == SLet(PArray(<<PIdent("a"), PIdent("b")>>), Tuple3)
\* let [a, b, c] = [5, true, "hello"]
LetTuple3 == SLet(PArray(<<PIdent("a"), PIdent("b"), PIdent("c")>>), Tuple3)
\* let [a, b, c, d] = [5, true, "hello"]
LetTuple4 == SLet(PArray(<<PIdent("a"), PIdent("b"), PIdent("c"), PIdent("d")>>), Tuple3)
\* let {foo} = {x: 5, y: 10}
LetFoo == SLet(PObject(<<"Assign">>, <<"foo">>, <<PHole>>), ObjXY)
\* let {x} = {x: 5, y: 10}
LetXPartial == SLet(PObject(<<"Assign">>, <<"x">>, <<PHole>>), ObjXY)
\* let p: {x: number, y: number} = {x: 5}
LetPAnnMissingY == SLet(PIdentAnn("p", AnnXYNum), ObjX)
\* ({c}: {x: number, y: number}) => c
LamMissingC ==
    ELambda(<<PObjectAnn(<<"Assign">>, <<"c">>, <<PHole>>, AnnXYNum)>>, EIdent("c"), FALSE)
\* ({x}: {x: number, y: number}) => x
LamPartialAnn ==
    ELambda(<<PObjectAnn(<<"Assign">>, <<"x">>, <<PHole>>, AnnXYNum)>>, EIdent("x"), FALSE)
\* type y = {x: number}, and (p: y) => p.x, (p: y) => p.z
TypeY == STypeDecl("y", TObject(0, <<TProp("x", FALSE, TPrim(0, "number"))>>), <<>>)
LamMemberAlias ==
    ELambda(<<PIdentAnn("p", TAliasNone(0, "y"))>>, EMember(EIdent("p"), "x"), FALSE)
LamMemberAliasMissing ==
    ELambda(<<PIdentAnn("p", TAliasNone(0, "y"))>>, EMember(EIdent("p"), "z"), FALSE)
\* (p: {x?: number, y: string}) => p.x, and the same with p.y
AnnOptX == TObject(0, <<TProp("x", TRUE, TPrim(0, "number")),
                        TProp("y", FALSE, TPrim(0, "string"))>>)
LamMemberOptional == ELambda(<<PIdentAnn("p", AnnOptX)>>, EMember(EIdent("p"), "x"), FALSE)
LamMemberRequired == ELambda(<<PIdentAnn("p", AnnOptX)>>, EMember(EIdent("p"), "y"), FALSE)
MemberExprs == {LamMemberAlias, LamMemberAliasMissing, LamMemberOptional, LamMemberRequired}
\* let rec K = (x: {a: number}) => K(x)
AnnA == TObject(0, <<TProp("a", FALSE, TPrim(0, "number"))>>)
LetRecK ==
    SLet(PIdent("K"),
         EFix(ELambda(<<PIdent("K")>>,
                      ELambda(<<PIdentAnn("x", AnnA)>>,
                              EApp(EIdent("K"), <<EIdent("x")>>), FALSE), FALSE)))
\* <K a={f} />, <K a={5} />, <div a={5} />
JsxKF == EJSXElement("K", <<"a">>, <<EIdent("f")>>)
JsxK5 == EJSXElement("K", <<"a">>, <<Lit5>>)
JsxDiv == EJSXElement("div", <<"a">>, <<Lit5>>)
\* (f) => <K a={f} />
LamJsxKF == ELambda(<<PIdent("f")>>, JsxKF, FALSE)
\* (f) => if true { <K a={f} /> } else { f(5) }
LamIfJsxElseApp ==
    ELambda(<<PIdent("f")>>,
            EIfElse(ELit("Bool", "true"), JsxKF, EApp(EIdent("f"), <<Lit5>>)), FALSE)
\* (f) => if true { f(5) } else { 10 }
LamIfAppElseLit ==
    ELambda(<<PIdent("f")>>,
            EIfElse(ELit("Bool", "true"), EApp(EIdent("f"), <<Lit5>>), Lit10), FALSE)
\* {x: 5, x: 10}
ObjDupKey == EObj(<<"KeyValue", "KeyValue">>, <<"x", "x">>, <<Lit5, Lit10>>)
\* ({x: a, x: b}) => a
LamDupKeyPat ==
    ELambda(<<PObject(<<"KeyValue", "KeyValue">>, <<"x", "x">>, <<PIdent("a"), PIdent("b")>>)>>,
            EIdent("a"), FALSE)
\* {...{}}
ObjSpreadEmpty == EObj(<<"Spread">>, <<"">>, <<EObj(<<>>, <<>>, <<>>)>>)
DupKeyExprs == {ObjDupKey, LamDupKeyPat, ObjSpreadEmpty}
Lit0 == ELit("Num", "0")
LitTrue == ELit("Bool", "true")
Cmp5And10 == EOp("EqEq", Lit5, Lit10)
\* if n == 0 { 5 } else { 10 }
IfNIsZero == EIfElse(EOp("EqEq", EIdent("n"), Lit0), Lit5, Lit10)
\* (c) => if c { 5 } else { "hello" }
LamIfElse == ELambda(<<PIdent("c")>>, EIfElse(EIdent("c"), Lit5, LitHello), FALSE)
\* if/else in the boolean form
IfElseExprs ==
    {EIfElse(Cmp5And10, Lit5, Lit10), EIfElse(LitTrue, Lit5, Lit5),
     EIfElse(LitTrue, LitHello, Lit5), EIfElse(Lit5, Lit5, Lit10),
     EIfElse(LitHello, Lit5, Lit10), LamIfElse}
\* if without else, in the boolean form and in the let-condition form
IfExprs ==
    {EIf(Cmp5And10, EEmpty), EIf(Cmp5And10, Lit5), EIf(LitTrue, LitHello),
     EIf(Lit5, EEmpty), EIf(Lit5, Lit5),
     EIf(ELetExpr(PIdent("a"), Lit5), EEmpty),
     EIf(ELetExpr(PIdent("a"), Lit5), EIdent("a")),
     EIf(ELetExpr(PLit("Num", "5"), Lit5), Lit10),
     EIf(ELetExpr(PLit("Num", "5"), LitHello), EEmpty),
     EIf(ELetExpr(PLit("Num", "5"), LitHello), Lit10),
     ELambda(<<PIdent("x")>>, EIf(Cmp5And10, EIdent("x")), FALSE)}

Exprs ==
    { Lit5, LamI, LamK, LamBadAwait, LamAsync, LamFlip, ObjX, ObjSpread,
      EIdent("I"), EIdent("K"), EIdent("a"), EIdent("z"),
      EApp(EIdent("I"), <<Lit5>>),
      EApp(EIdent("I"), <<EIdent("I")>>),
      EApp(EIdent("K"), <<EIdent("I"), EIdent("z")>>),
      ELambda(<<PIdent("f")>>, EApp(EIdent("f"), <<LamBadAwait>>), FALSE),
      ELambda(<<PIdent("f")>>, EApp(EIdent("f"), <<LamBadAwait, EIdent("I")>>), FALSE),
      ELambda(<<PIdent("f")>>, EApp(EIdent("f"), <<LetBadAwait, Lit5>>), FALSE),
      ELet(PIdent("a"), Lit5, EIdent("a")),
      LetBadAwait,
      EOp("Add", Lit5, Lit10), EOp("Add", Lit5, LitHello),
      ETuple(<<Lit5, LitHello>>),
      EMember(ObjX, "x"), EMember(ObjX, "y"), EMember(Lit5, "x"),
      ELetExpr(PIdent("a"), Lit5),
      EAwait(Lit5), EEmpty }
    \cup IfElseExprs \cup IfExprs \cup AwaitExprs \cup PromiseExprs
    \cup AppExprs \cup DupExprs \cup AnnExprs \cup {LamMissingC, LamPartialAnn}
    \cup MemberExprs \cup {JsxK5, JsxDiv, LamIfAppElseLit} \cup DupKeyExprs

Stmts ==
    {SLet(PIdent("I"), LamI), SLet(PIdent("K"), LamK), SLet(PIdent("f"), LamFlip),
     SLet(PIdent("a"), Lit5), SLet(PIdent("a"), ObjSpread),
     SLet(PIdent("a"), EApp(EIdent("I"), <<Lit5>>)),
     SLet(PIdent("a"), EApp(EIdent("K"), <<EIdent("I")>>)),
     SLet(PIdent("g"),
          ELambda(<<PIdent("f")>>, EApp(EIdent("f"), <<LamBadAwait, EIdent("I")>>), FALSE)),
     SLet(PIdent("b"), EOp("Add", Lit5, LitHello)),
     SLet(PIdent("b"), EAwait(Lit5)),
     SLet(PIdent("b"), EIdent("z")),
     SLet(PIs("b", "number"), Lit5),
     SLet(PArray(<<PIdent("x"), PIdent("x")>>), ETuple(<<Lit5, Lit10>>)),
     SLet(PArray(<<PIdent("x"), PHole>>), ETuple(<<Lit5, Lit10>>)),
     SLet(PObject(<<"Assign", "Rest", "Rest">>, <<"x", "", "">>,
                  <<PHole, PIdent("y"), PIdent("z")>>), ObjX),
     SLetNoInit(PIdent("b")),
     SDeclare(PIdentAnn("f", AnnNumToNum)), SDeclare(PIdent("f")),
     SDeclare(PArray(<<PIdent("x")>>)),
     TypeY, SExpr(LamMemberAlias), SExpr(LamMemberAliasMissing),
     LetRecK, SExpr(LamJsxKF), SExpr(JsxK5), SExpr(LamIfJsxElseApp),
     SExpr(Lit5), SExpr(EIdent("I")), SExpr(EIdent("z")),
     SExpr(EApp(EIdent("I"), <<EIdent("I")>>)),
     SExpr(EApp(EIdent("f"), <<Lit5>>)),
     SExpr(EMember(Lit5, "x")),
     SExpr(ELetExpr(PIdent("a"), Lit5)),
     SExpr(EAwait(Lit5)),
     SLet(PIdent("n"), Lit0), SLet(PIdent("result"), IfNIsZero),
     LetPAnnXYZ, LetAAnn, LetTuple2, LetTuple3, LetTuple4,
     LetFoo, LetXPartial, LetPAnnMissingY}

\* -------------------------------------------------------------- the program
\* pc    where the run is: "init" before the call, "run" in the statement
\*       loop of infer_prog, then "ok" (a value was returned), "err" (an Err
\*       was returned) or "panic" (the thread panicked)
\* ctx   the Context of the run
\* prog  the statements taken from prog.body so far
\* error the Err returned, res the Scheme returned by infer_expr
\* arg, out: the arguments and results of the util functions called directly
VARIABLES pc, ctx, prog, error, res, arg, out

vars == <<pc, ctx, prog, error, res, arg, out>>

NoScheme == SchemeFrom(NoType)

Init ==
    /\ pc = "init"
    /\ ctx \in {[DefaultContext EXCEPT !.hseed = h] : h \in {0, 1}}
    /\ prog = <<>>
    /\ error = ""
    /\ res = NoScheme
    /\ arg = <<>>
    /\ out = <<>>

\* infer_prog, up to the loop: the Promise and JSXElement aliases
Setup ==
    /\ pc = "init"
    /\ LET c1 == fresh_id(ctx)
           c2 == fresh_id(c1)
           promise_scheme ==
               SchemeFrom(TObject(c2.count, <<TProp("_name", FALSE, TLit(c1.count, "Str", "Promise"))>>))
           c3 == fresh_id(c2)
           c4 == fresh_id(c3)
           jsx_element_scheme ==
               SchemeFrom(TObject(c4.count, <<TProp("_name", FALSE, TLit(c3.count, "Str", "JSXElement"))>>))
       IN ctx' = [c4 EXCEPT !.types =
                     Insert(Insert(ctx.types, "Promise", promise_scheme),
                            "JSXElement", jsx_element_scheme)]
    /\ pc' = "run"
    /\ UNCHANGED <<prog, error, res, arg, out>>

\* the names of an Assump in the order in which the HashMap is iterated
RECURSIVE RankedNames(_)
RankedNames(S) ==
    IF S = {} THEN <<>>
    ELSE LET m == CHOOSE x \in S : \A y \in S : NameRank(x) <= NameRank(y)
         IN <<m>> \o RankedNames(S \ {m})

\* ... inserting the scheme of the pattern as it is, neither normalized nor
\* frozen
RECURSIVE insert_all_raw(_, _, _, _)
insert_all_raw(names, pa, s, c) ==
    IF names = <<>> THEN c
    ELSE insert_all_raw(Tail(names), pa, s,
                        [c EXCEPT !.values =
                            Insert(@, Head(names), apply_scheme(pa[Head(names)], s))])

\* for (name, scheme) in pa: insert the normalized, frozen scheme
RECURSIVE insert_all(_, _, _, _)
insert_all(names, pa, s, c) ==
    IF names = <<>> THEN c
    ELSE Let([n \in {normalize(apply_scheme(pa[Head(names)], s), c)} |->
            insert_all(Tail(names), pa, s,
                       [n.ctx EXCEPT !.values = Insert(@, Head(names), freeze_scheme(n.sc))])])

\* ... without the check that stops at a failed statement
Finish_keep_going(r) ==
    /\ pc' = "run"
    /\ ctx' = r.ctx
    /\ error' = r.msg

\* the end of one iteration of the loop
Finish(r) ==
    /\ pc' = IF r.st = "ok" THEN "run" ELSE r.st
    /\ ctx' = r.ctx
    /\ error' = r.msg

Take(stmt) ==
    /\ pc = "run"
    /\ Len(prog) < MaxStmts
    /\ prog' = Append(prog, stmt)
    /\ UNCHANGED <<res, arg, out>>

\* Statement::VarDecl with declare
VarDeclDeclare(stmt) ==
    /\ stmt.k = "VarDecl" /\ stmt.declare
    /\ Take(stmt)
    /\ Finish(IF stmt.pattern.k # "Ident" THEN Panic(ctx, "not yet implemented")
              ELSE IF stmt.pattern.ann = <<>>
              THEN Err(ctx, "missing type annotation in declare statement")
              ELSE LET ta == infer_type_ann(stmt.pattern.ann[1], ctx)
                       scheme == generalize(<<>>, ta.t)
                   IN Ok([ta.ctx EXCEPT !.values =
                             Insert(@, stmt.pattern.name, freeze_scheme(scheme))],
                         EmptySubst, NoType))

\* Statement::VarDecl without declare
VarDeclLet(stmt) ==
    /\ stmt.k = "VarDecl" /\ ~stmt.declare
    /\ Take(stmt)
    /\ Finish(IF stmt.init = <<>>
              THEN Panic(ctx, "called Option::unwrap() on a None value")
              ELSE LET r == infer_pattern_and_init(stmt.pattern, stmt.init[1], ctx, "Assign")
                   IN IF r.st # "ok" THEN r
                      ELSE Ok(insert_all(HashOrder(RankedNames(DOMAIN r.a), r.ctx),
                                         r.a, r.s, r.ctx),
                              r.s, NoType))

\* Statement::TypeDecl
TypeDecl(stmt) ==
    /\ stmt.k = "TypeDecl"
    /\ Take(stmt)
    /\ Finish(LET n == Len(stmt.type_params)
                  c1 == fresh_ids(ctx, n)
                  type_param_map == [nm \in Range(stmt.type_params) |->
                                        TVar(ctx.count + (CHOOSE i \in 1..n : stmt.type_params[i] = nm))]
                  ta == infer_type_ann_with_params(stmt.ann[1], c1, type_param_map)
                  scheme == generalize(<<>>, ta.t)
              IN Ok([ta.ctx EXCEPT !.types = Insert(@, stmt.name, freeze_scheme(scheme))],
                    EmptySubst, NoType))

\* infer_expr: infer, then close_over
infer_expr(c, expr) ==
    Let([r \in {infer(c, expr)} |->
       IF r.st # "ok" THEN [r |-> r, sc |-> NoScheme]
       ELSE Let([n \in {close_over(r.s, r.t, r.ctx)} |->
               [r |-> [r EXCEPT !.ctx = n.ctx], sc |-> n.sc]])])

\* Statement::Expr
ExprStmt(stmt) ==
    /\ stmt.k = "Expr"
    /\ Take(stmt)
    /\ Finish(infer_expr(ctx, stmt.init[1]).r)

\* the loop is over: Ok(ctx)
Return ==
    /\ pc = "run"
    /\ pc' = "ok"
    /\ UNCHANGED <<ctx, prog, error, res, arg, out>>

\* infer_expr called on an expression with a default Context
InferExpr(expr) ==
    /\ pc = "init"
    /\ LET r == infer_expr(ctx, expr)
       IN /\ pc' = r.r.st
          /\ ctx' = r.r.ctx
          /\ error' = r.r.msg
          /\ res' = r.sc
    /\ prog' = <<SExpr(expr)>>
    /\ UNCHANGED <<arg, out>>

Next ==
    \/ Setup
    \/ \E stmt \in Stmts : VarDeclDeclare(stmt)
    \/ \E stmt \in Stmts : VarDeclLet(stmt)
    \/ \E stmt \in Stmts : TypeDecl(stmt)
    \/ \E stmt \in Stmts : ExprStmt(stmt)
    \/ Return
    \/ \E expr \in Exprs : InferExpr(expr)

Spec == Init /\ [][Next]_vars

\* ------------------------------------------------- normalize, called directly
NormLeaves == {TVar(v) : v \in 1..MaxVarId} \cup {TPrim(11, "number"), TLit(12, "Num", "5")}
NormObjs ==
    {TObject(13, <<TProp("a", FALSE, l)>>) : l \in NormLeaves}
    \cup {TObject(14, <<TProp("b", FALSE, l)>>) : l \in NormLeaves}
NormLams ==
    {TLam(15, <<a>>, b, FALSE) : a, b \in NormLeaves}
    \cup {TLam(16, <<TLam(15, <<a>>, b, FALSE)>>, TLam(15, <<b>>, a, FALSE), FALSE) :
             a, b \in NormLeaves}
NormIntersections ==
    {TIntersection(17, <<a, b>>) : a, b \in NormObjs}
    \cup {TIntersection(17, <<TObject(18, <<TProp("x", FALSE, a)>>),
                            TObject(19, <<TProp("x", FALSE, b)>>)>>) : a, b \in NormObjs}
    \cup {TIntersection(17, <<a, b>>) : a \in NormLeaves, b \in NormObjs}
NormTypes == NormLeaves \cup NormObjs \cup NormLams \cup NormIntersections

InitNorm ==
    /\ pc = "norm0"
    /\ ctx \in {[DefaultContext EXCEPT !.hseed = h, !.count = NormCount] : h \in {0, 1}}
    /\ prog = <<>>
    /\ error = ""
    /\ res = NoScheme
    /\ arg \in {<<generalize(<<>>, t)>> : t \in NormTypes}
    /\ out = <<>>

\* normalize(arg)
Normalize1 ==
    /\ pc = "norm0"
    /\ LET n == normalize(arg[1], ctx)
       IN out' = <<n.sc>> /\ ctx' = n.ctx
    /\ pc' = "norm1"
    /\ UNCHANGED <<prog, error, res, arg>>

\* normalize(normalize(arg))
Normalize2 ==
    /\ pc = "norm1"
    /\ LET n == normalize(out[1], ctx)
       IN out' = Append(out, n.sc) /\ ctx' = n.ctx
    /\ pc' = "norm2"
    /\ UNCHANGED <<prog, error, res, arg>>

NextNorm == Normalize1 \/ Normalize2

SpecNorm == InitNorm /\ [][NextNorm]_vars

\* ---------------------------------------------- compose_subs, called directly
SubstVals == {TPrim(11, "number"), TPrim(12, "string")} \cup {TVar(v) : v \in 1..(MaxKey + 1)}
Substs == {EmptySubst} \cup {[i \in {k} |-> v] : k \in 1..MaxKey, v \in SubstVals}

InitSubst ==
    /\ pc = "compose0"
    /\ ctx = DefaultContext
    /\ prog = <<>>
    /\ error = ""
    /\ res = NoScheme
    /\ arg \in {<<a, b, c>> : a, b, c \in Substs}
    /\ out = <<>>

\* compose_subs(a, compose_subs(b, c)) and compose_subs(compose_subs(a, b), c)
Compose ==
    /\ pc = "compose0"
    /\ out' = <<compose_subs(arg[1], compose_subs(arg[2], arg[3])),
                compose_subs(compose_subs(arg[1], arg[2]), arg[3])>>
    /\ pc' = "compose1"
    /\ UNCHANGED <<ctx, prog, error, res, arg>>

\* the types to which a composed substitution is applied
SubstTypes ==
    {TVar(v) : v \in 1..MaxKey}
    \cup {TLam(15, <<TVar(1)>>, TVar(2), FALSE), TTuple(16, <<TVar(2), TVar(1)>>)}

\* t.apply(&compose_subs(a, b)) and t.apply(b).apply(a)
ApplyComposed ==
    /\ pc = "compose1"
    /\ \E t \in SubstTypes :
          out' = <<t, apply(t, compose_subs(arg[1], arg[2])), apply(apply(t, arg[2]), arg[1])>>
    /\ pc' = "compose2"
    /\ UNCHANGED <<ctx, prog, error, res, arg>>

NextSubst == Compose \/ ApplyComposed

SpecSubst == InitSubst /\ [][NextSubst]_vars

\* ---------------------------------------------- union_types, called directly
\* candidates: primitives, literals (5 twice, under two ids), a variable and
\* two instantiations of one scheme <t>(t) => t, which share the id of the Lam
UnionLeaves ==
    {TPrim(1, "number"), TLit(2, "Num", "5"), TLit(3, "Num", "5"), TLit(4, "Str", "hello"),
     TPrim(5, "boolean"), TLit(6, "Bool", "true"), TVar(7),
     TLam(8, <<TVar(9)>>, TVar(9), FALSE), TLam(8, <<TVar(10)>>, TVar(10), FALSE)}
UnionFlat ==
    {TUnion(11, <<TLit(2, "Num", "5"), TLit(4, "Str", "hello")>>),
     TUnion(11, <<TLit(6, "Bool", "true"), TVar(7)>>)}
UnionNested ==
    {TUnion(12, <<u, l>>) : u \in UnionFlat, l \in {TPrim(1, "number"), TLit(3, "Num", "5")}}
UnionInputs == UnionLeaves \cup UnionFlat \cup UnionNested

InitUnion ==
    /\ pc = "union0"
    /\ ctx \in {[DefaultContext EXCEPT !.hseed = h, !.count = NormCount] : h \in {0, 1}}
    /\ prog = <<>>
    /\ error = ""
    /\ res = NoScheme
    /\ arg \in {<<a, b>> : a, b \in UnionInputs}
    /\ out = <<>>

\* union_types(a, b)
UnionTypes ==
    /\ pc = "union0"
    /\ LET u == union_types(arg[1], arg[2], ctx)
       IN out' = <<u.t>> /\ ctx' = u.ctx
    /\ pc' = "union1"
    /\ UNCHANGED <<prog, error, res, arg>>

\* union_types(b, a); its HashSets are new ones, with an order of their own
UnionTypesSwapped ==
    /\ pc = "union1"
    /\ \E h \in {0, 1} :
          LET u == union_types(arg[2], arg[1], [ctx EXCEPT !.hseed = h])
          IN out' = Append(out, u.t) /\ ctx' = u.ctx
    /\ pc' = "union2"
    /\ UNCHANGED <<prog, error, res, arg>>

NextUnion == UnionTypes \/ UnionTypesSwapped

SpecUnion == InitUnion /\ [][NextUnion]_vars

\* --------------------------------------- simplify_intersection, called directly
\* inputs: a primitive, a variable, the empty object, objects that share a
\* property with equal or different types, objects whose property x is an
\* object itself
InterObjs ==
    {TObject(1, <<>>),
     TObject(2, <<TProp("a", FALSE, TPrim(3, "number"))>>),
     TObject(4, <<TProp("a", FALSE, TPrim(5, "number")), TProp("b", TRUE, TVar(6))>>),
     TObject(7, <<TProp("a", FALSE, TPrim(8, "string"))>>),
     TObject(9, <<TProp("x", FALSE, TObject(2, <<TProp("a", FALSE, TPrim(3, "number"))>>))>>),
     TObject(10, <<TProp("x", FALSE, TObject(11, <<TProp("b", FALSE, TPrim(3, "number"))>>))>>)}
InterInputs == {TPrim(12, "number"), TVar(13)} \cup InterObjs
MaxInter == 3
InterLists == UNION {[1..n -> InterInputs] : n \in 1..MaxInter}

InitInter ==
    /\ pc = "inter0"
    /\ ctx \in {[DefaultContext EXCEPT !.hseed = h, !.count = NormCount] : h \in {0, 1}}
    /\ prog = <<>>
    /\ error = ""
    /\ res = NoScheme
    /\ arg \in InterLists
    /\ out = <<>>

\* simplify_intersection(arg)
SimplifyIntersection ==
    /\ pc = "inter0"
    /\ LET r == simplify_intersection(arg, ctx)
       IN out' = <<r.t>> /\ ctx' = r.ctx
    /\ pc' = "inter1"
    /\ UNCHANGED <<prog, error, res, arg>>

NextInter == SimplifyIntersection

SpecInter == InitInter /\ [][NextInter]_vars

SubstEq(a, b) == DOMAIN a = DOMAIN b /\ \A i \in DOMAIN a : TypeEq(a[i], b[i])

\* ============================================================ properties
StrictlyIncreasing(seq) == \A i, j \in DOMAIN seq : i < j => seq[i] < seq[j]

\* the variable ids of a type in the order in which they occur, left to right
RECURSIVE VarOccurrences(_)
VarOccurrences(t) ==
    IF t.k = "Var" THEN <<t.id>>
    ELSE Flatten([i \in DOMAIN t.ts |-> VarOccurrences(t.ts[i])])
         \o Flatten([i \in DOMAIN t.ret |-> VarOccurrences(t.ret[i])])
         \o Flatten([i \in DOMAIN t.props |-> VarOccurrences(t.props[i].ty)])

\* the distinct variable ids of a type in the order of their first occurrence
FirstOccurrences(t) == DedupNames(VarOccurrences(t))

RECURSIVE HasIntersection(_)
HasIntersection(t) ==
    \/ t.k = "Intersection"
    \/ \E i \in DOMAIN t.ts : HasIntersection(t.ts[i])
    \/ \E i \in DOMAIN t.ret : HasIntersection(t.ret[i])
    \/ \E i \in DOMAIN t.props : HasIntersection(t.props[i].ty)

RECURSIVE AllFrozen(_)
AllFrozen(t) ==
    /\ t.frozen
    /\ \A i \in DOMAIN t.ts : AllFrozen(t.ts[i])
    /\ \A i \in DOMAIN t.ret : AllFrozen(t.ret[i])
    /\ \A i \in DOMAIN t.props : AllFrozen(t.props[i].ty)

\* the names a pattern binds
RECURSIVE PatNames(_)
PatNames(pat) ==
    CASE pat.k \in {"Ident", "Is"} -> {pat.name}
      [] pat.k = "Object" ->
            {pat.names[i] : i \in {j \in DOMAIN pat.kinds : pat.kinds[j] = "Assign"}}
            \cup UNION {PatNames(pat.ps[i]) :
                           i \in {j \in DOMAIN pat.kinds : pat.kinds[j] # "Assign"}}
      [] OTHER -> UNION {PatNames(pat.ps[i]) : i \in DOMAIN pat.ps}

IsLet(stmt) == stmt.k = "VarDecl" /\ ~stmt.declare
Binds(stmt, n) ==
    stmt.k = "VarDecl" /\ n \in PatNames(stmt.pattern)

\* the last statement of prog that binds n is a let
LetBound(n) ==
    \E i \in DOMAIN prog :
        /\ IsLet(prog[i]) /\ Binds(prog[i], n)
        /\ \A j \in DOMAIN prog : j > i => ~Binds(prog[j], n)

Zero(n) == [i \in 1..n |-> i - 1]

\* C1: in a run that returns Ok, every id handed out by fresh_id, through the
\* root Context or a cloned child, is greater than every id handed out before
\* it, and at the exit of a Lambda or Let scope the count of the parent is the
\* final count of the child.
C1_FreshIdsUnique ==
    pc = "ok" =>
        /\ StrictlyIncreasing(ctx.minted)
        /\ \A i \in DOMAIN ctx.scopes : ctx.scopes[i].ok => ctx.scopes[i].parent = ctx.scopes[i].child

\* C2: when a Lambda or a Let fails, the count of the parent has been advanced
\* to the final count of the child scope by the time the error is returned.
C2_WriteBackOnFailure ==
    \A i \in DOMAIN ctx.scopes :
        ~ctx.scopes[i].ok => ctx.scopes[i].parent = ctx.scopes[i].child

\* C3: infer_prog stops at the first statement that fails: while the loop
\* runs no statement has failed; the step of a failing statement ends the run
\* with the error of that statement (pc is "err" for a returned Err, "panic"
\* for the panics of C5) and leaves the names of values and types as they
\* were; after it no statement is taken and no Context is returned.
C3_StopsAtFirstFailure ==
    /\ [](pc = "run" => error = "")
    /\ [][/\ pc \in {"err", "panic"} => UNCHANGED vars
          /\ (pc = "run" /\ pc' \in {"err", "panic"}) =>
                /\ prog' = Append(prog, prog'[Len(prog')])
                /\ DOMAIN ctx'.values = DOMAIN ctx.values
                /\ DOMAIN ctx'.types = DOMAIN ctx.types
                /\ error' # ""]_vars

\* a let that fails after an earlier let has succeeded
C3_Witness ==
    /\ pc = "err" /\ Len(prog) = 2
    /\ IsLet(prog[1]) /\ IsLet(prog[2])
    /\ "I" \in DOMAIN ctx.values
    /\ PatNames(prog[2].pattern) = {"b"}
    /\ "b" \notin DOMAIN ctx.values

\* C4: after infer_prog has returned Ok, every scheme of values bound by a
\* top-level let is frozen and normalized: its qualifiers are 0..n-1 and they
\* are the variable ids that occur in its type.
C4_SchemesFrozenNormalized ==
    pc = "ok" =>
        \A n \in DOMAIN ctx.values :
            LetBound(n) =>
                LET sc == ctx.values[n]
                IN /\ AllFrozen(sc.ty)
                   /\ sc.qualifiers = Zero(Len(sc.qualifiers))
                   /\ Range(sc.qualifiers) = ftv(sc.ty)

\* the scheme of f = (f) => (x) => (y) => f(y)(x) after a later statement
C4_Witness ==
    /\ pc = "ok" /\ Len(prog) = 2
    /\ LetBound("f") /\ "f" \in DOMAIN ctx.values
    /\ Len(ctx.values["f"].qualifiers) = 3
    /\ prog[2].k = "Expr"

\* C5: every failure of inference is returned as an Err value; infer_prog and
\* infer_expr never panic.
C5_NeverPanics == pc # "panic"

LastExpr == prog[Len(prog)].init[1]
LastIsIdent == prog # <<>> /\ prog[Len(prog)].k = "Expr" /\ LastExpr.k = "Ident"

\* C6: inferring an identifier that is not bound in values returns an Err and
\* leaves values and the count as they were; a bound identifier is instantiated.
C6_UnboundIdentIsErr ==
    (LastIsIdent /\ pc # "init") =>
        IF LastExpr.name \in DOMAIN ctx.values
        THEN pc \in {"run", "ok"}
        ELSE pc = "err"

\* C7: instantiate replaces every qualifier by a variable minted at that call:
\* the new variables are pairwise distinct and differ from every id minted
\* before, two instantiations share no new variable, and the result is the
\* type with every qualifier replaced once.
C7_InstantiateFresh ==
    \A i \in DOMAIN ctx.insts :
        LET e == ctx.insts[i]
        IN /\ \A a, b \in DOMAIN e.fresh : a # b => e.fresh[a] # e.fresh[b]
           /\ \A a \in DOMAIN e.fresh : e.fresh[a] \notin Range(e.before)
           /\ \A j \in 1..(i - 1) : Range(ctx.insts[j].fresh) \cap Range(e.fresh) = {}
           /\ ftv(e.result) =
                 (ftv(e.ty) \ Range(e.quals))
                 \cup {e.fresh[a] : a \in {b \in DOMAIN e.quals : e.quals[b] \in ftv(e.ty)}}

\* C8 (as stated): normalize renumbers the free variables to 0..n-1 in the
\* order of their first occurrence in the type.
C8_FirstOccurrenceOrder ==
    (pc = "norm1" /\ ~HasIntersection(arg[1].ty)) =>
        FirstOccurrences(out[1].ty) = Zero(Len(FirstOccurrences(arg[1].ty)))

\* C8 (amended): normalize renumbers the free variables to 0..n-1 in the
\* ascending order of their original ids: the qualifiers and the variables of
\* the result are 0..n-1, and in a type without Intersection the variable at
\* each position gets the rank of its original id, so that distinct variables
\* get distinct ids, equal variables equal ids, and a first-occurring variable
\* with the larger original id gets the larger new id.
C8_AscendingIdOrder ==
    pc = "norm1" =>
        LET n == Cardinality(ftv(arg[1].ty))
            old == VarOccurrences(arg[1].ty)
            new == VarOccurrences(out[1].ty)
        IN /\ out[1].qualifiers = Zero(n)
           /\ ftv(out[1].ty) = 0..(n - 1)
           /\ ~HasIntersection(arg[1].ty) =>
                 /\ Len(new) = Len(old)
                 /\ \A i \in DOMAIN old :
                       new[i] = Cardinality({v \in ftv(arg[1].ty) : v < old[i]})

\* (t3) => t1 becomes (t1) => t0
C8_Witness ==
    /\ pc = "norm1"
    /\ arg[1].ty.k = "Lam"
    /\ VarOccurrences(arg[1].ty) = <<3, 1>>
    /\ VarOccurrences(out[1].ty) = <<1, 0>>

\* C9: normalize is idempotent: normalize(normalize(sc)) equals normalize(sc)
\* in qualifiers and in type.
C9_NormalizeIdempotent ==
    pc = "norm2" => SchemeEq(out[2], out[1])

\* C10: compose_subs is associative.
C10_ComposeAssociative ==
    pc = "compose1" => SubstEq(out[1], out[2])

\* C11: compose_subs(s1, s2) is "apply s2, then s1": applying the composed
\* substitution to a type gives the type obtained by applying s2 and then s1;
\* an id bound by both is bound to s2's value with s1 applied.
C11_ComposeIsApplyS2ThenS1 ==
    pc = "compose2" => TypeEq(out[2], out[3])

\* infer_expr was called on expr, with a default Context, and has ended
Inferred(expr) ==
    /\ pc \in {"ok", "err", "panic"}
    /\ prog = <<SExpr(expr)>>
    /\ DOMAIN ctx.types = {}

\* the type of a literal expression
LitType(e) == TLit(0, e.sub, e.name)

\* the union of the types of two literal expressions of different kinds or
\* values, the first inferred first
LitUnion(a, b) == IF a = b THEN LitType(a) ELSE TUnion(0, <<LitType(a), LitType(b)>>)

IsBoolIfElse(e) == e.k = "IfElse" /\ Len(e.es) = 3 /\ e.es[1].k # "LetExpr"
IsLitExpr(e) == e.k = "Lit"
\* a condition that is a literal or a comparison of number literals
IsPlainCond(e) ==
    \/ e.k = "Lit"
    \/ e.k = "Op" /\ e.es[1].k = "Lit" /\ e.es[2].k = "Lit"
          /\ e.es[1].sub = "Num" /\ e.es[2].sub = "Num"
\* ... whose type unifies with boolean
PlainCondIsBool(e) ==
    \/ e.k = "Lit" /\ e.sub = "Bool"
    \/ e.k = "Op" /\ e.name \in {"EqEq", "NotEq", "Gt", "GtEq", "Lt", "LtEq"}

\* C12: if/else in the boolean form: a condition whose type does not unify
\* with boolean makes the expression fail; otherwise the type is the union of
\* the type of the consequent and the type of the alternate, so that
\*   let n = 0; let result = if n == 0 { 5 } else { 10 }
\* gives result : 5 | 10, and (c) => if c { 5 } else { "hello" } is
\* (boolean) => 5 | "hello".
C12_IfElseUnion ==
    /\ \A e \in Exprs :
          (/\ Inferred(e) /\ IsBoolIfElse(e)
           /\ IsPlainCond(e.es[1]) /\ IsLitExpr(e.es[2]) /\ IsLitExpr(e.es[3])) =>
              IF PlainCondIsBool(e.es[1])
              THEN pc = "ok" /\ res.qualifiers = <<>>
                   /\ TypeEq(res.ty, LitUnion(e.es[2], e.es[3]))
              ELSE pc = "err"
    /\ Inferred(LamIfElse) =>
          /\ pc = "ok"
          /\ TypeEq(res.ty, TLam(0, <<TPrim(0, "boolean")>>,
                                 LitUnion(Lit5, LitHello), FALSE))
    /\ (pc \in {"run", "ok"} /\ prog = <<SLet(PIdent("n"), Lit0),
                                          SLet(PIdent("result"), IfNIsZero)>>) =>
          /\ "result" \in DOMAIN ctx.values
          /\ ctx.values["result"].qualifiers = <<>>
          /\ TypeEq(ctx.values["result"].ty, LitUnion(Lit5, Lit10))

\* let n = 0; let result = if n == 0 { 5 } else { 10 } has returned
C12_Witness ==
    /\ pc = "ok"
    /\ prog = <<SLet(PIdent("n"), Lit0), SLet(PIdent("result"), IfNIsZero)>>
    /\ ctx.values["result"].ty.k = "Union"
    /\ Len(ctx.values["result"].ty.ts) = 2

IsIf(e) == e.k = "IfElse" /\ Len(e.es) = 2
IsLetCond(e) == e.es[1].k = "LetExpr"
\* an if without else made of literals: the condition is a literal, a
\* comparison of number literals or a let-condition with a literal
\* initializer; the consequent is empty, a literal or the name that the
\* let-condition binds
IsPlainIf(e) ==
    /\ IsIf(e)
    /\ IF IsLetCond(e)
       THEN /\ e.es[1].pats[1].k \in {"Ident", "Lit"}
            /\ e.es[1].es[1].k = "Lit"
            /\ \/ e.es[2].k \in {"Empty", "Lit"}
               \/ e.es[2].k = "Ident" /\ e.es[1].pats[1].k = "Ident"
                     /\ e.es[2].name = e.es[1].pats[1].name
       ELSE IsPlainCond(e.es[1]) /\ e.es[2].k \in {"Empty", "Lit"}
\* the condition is accepted: it unifies with boolean, or the pattern of the
\* let-condition matches the initializer
PlainIfCondOk(e) ==
    IF IsLetCond(e)
    THEN \/ e.es[1].pats[1].k = "Ident"
         \/ /\ e.es[1].pats[1].sub = e.es[1].es[1].sub
            /\ e.es[1].pats[1].name = e.es[1].es[1].name
    ELSE PlainCondIsBool(e.es[1])
\* the type of the consequent
PlainIfConsType(e) ==
    CASE e.es[2].k = "Empty" -> TPrim(0, "undefined")
      [] e.es[2].k = "Lit" -> LitType(e.es[2])
      [] OTHER -> LitType(e.es[1].es[1])
UnifiesWithUndefined(t) ==
    \/ t.k = "Var"
    \/ t.k = "Prim" /\ t.name = "undefined"
    \/ t.k = "Lit" /\ t.sub = "Undefined"

\* the error that the claim names
DedicatedError == "Consequent for 'if' without 'else' must not return a value"

RECURSIVE AwaitFlags(_, _)
AwaitFlags(e, flag) ==
    (IF e.k = "Await" THEN {[node |-> e, flag |-> flag]} ELSE {})
    \cup UNION {AwaitFlags(e.es[i], IF e.k = "Lambda" THEN e.flag ELSE flag) :
                   i \in DOMAIN e.es}

\* ... of the statements taken so far
AwaitsOfProg ==
    UNION {UNION {AwaitFlags(prog[i].init[j], FALSE) : j \in DOMAIN prog[i].init} :
              i \in DOMAIN prog}

\* the error of an await outside an async lambda
AwaitRejected(e) == e.st = "err" /\ e.msg = "Can't use await inside non-async lambda"

\* C14: an Await whose innermost enclosing Lambda is not async, or that has no
\* enclosing Lambda, fails with the error of C14 before its operand is
\* inferred (no id is handed out); an Await whose innermost enclosing Lambda
\* is async is not rejected, also in the body of a let; an Await that succeeds
\* yields the fresh variable v for which the operand was unified with
\* Promise<v>.
C14_AwaitOnlyInAsync ==
    /\ \A i \in DOMAIN ctx.awaits :
          LET e == ctx.awaits[i]
              F == {a.flag : a \in {b \in AwaitsOfProg : b.node = e.node}}
          IN /\ F # {}
             /\ AwaitRejected(e) => FALSE \in F /\ e.after = e.before
             /\ ~AwaitRejected(e) => TRUE \in F
             /\ e.st = "ok" =>
                   /\ e.t.k = "Var"
                   /\ \E j \in (e.before + 1)..e.after : ctx.minted[j] = e.t.id
                   /\ TypeEq(apply(e.t1, e.s2), TAlias(0, "Promise", <<e.t>>))
    /\ Inferred(EAwait(EIdent("z"))) => pc = "err" /\ ctx.awaits # <<>>
    /\ Inferred(AsyncOuterPlainInner) => pc = "err" /\ AwaitRejected(ctx.awaits[1])
    /\ Inferred(PlainOuterAsyncInner) => pc = "ok" /\ ctx.awaits[1].st = "ok"
    /\ Inferred(AsyncLetAwait) => pc = "ok" /\ ctx.awaits[1].st = "ok"

\* async (p) => {let y = 5; await p} has been inferred
C14_Witness ==
    /\ Inferred(AsyncLetAwait) /\ pc = "ok"
    /\ Len(ctx.awaits) = 1 /\ ctx.awaits[1].st = "ok"
    /\ res.ty.ts[1].k = "Alias" /\ res.ty.ts[1].name = "Promise"

IsPromiseAlias(t) == t.k = "Alias" /\ t.name = "Promise"
PromiseOf(t) == TAlias(0, "Promise", <<t>>)

\* C15: the return type of an async Lambda is the Promise alias: the type of
\* the body when that is a Promise alias already, else Promise with the type
\* of the body as its one type argument; the return type of a Lambda that is
\* not async is the type of its body.  So async () => 5 is () => Promise<5>,
\* async (x: Promise<number>) => x is (Promise<number>) => Promise<number>,
\* and so is (x: Promise<number>) => x.
C15_AsyncReturnsPromise ==
    /\ \A i \in DOMAIN ctx.lams :
          LET l == ctx.lams[i]
          IN IF l.node.flag
             THEN /\ IsPromiseAlias(l.rt)
                  /\ IF IsPromiseAlias(l.body) THEN l.rt = l.body
                     ELSE l.rt.sub = "some" /\ l.rt.ts = <<l.body>>
             ELSE l.rt = l.body
    /\ \A e \in Exprs :
          (Inferred(e) /\ e.k = "Lambda" /\ e.ann = <<>> /\ pc = "ok") =>
              /\ res.ty.k = "Lam"
              /\ e.flag => IsPromiseAlias(res.ty.ret[1])
              /\ (~e.flag /\ e.es[1].k \in {"Lit", "Lambda"}) => ~IsPromiseAlias(res.ty.ret[1])
    /\ Inferred(AsyncFive) =>
          pc = "ok" /\ TypeEq(res.ty, TLam(0, <<>>, PromiseOf(LitType(Lit5)), FALSE))
    /\ Inferred(AsyncIdPromise) =>
          pc = "ok" /\ TypeEq(res.ty, TLam(0, <<AnnPromiseNum>>, AnnPromiseNum, FALSE))
    /\ Inferred(PlainIdPromise) =>
          pc = "ok" /\ TypeEq(res.ty, TLam(0, <<AnnPromiseNum>>, AnnPromiseNum, FALSE))
    /\ Inferred(AsyncReturnsPromise) =>
          pc = "ok" /\ TypeEq(res.ty, TLam(0, <<PromiseOf(TVar(0))>>, PromiseOf(TVar(0)), FALSE))
    /\ Inferred(AsyncAsync) =>
          /\ pc = "ok"
          /\ TypeEq(res.ty, TLam(0, <<TVar(0)>>,
                                 PromiseOf(TLam(0, <<TVar(1)>>, PromiseOf(TVar(1)), FALSE)),
                                 FALSE))

\* async (p) => {let y = await p; p}: the body is a Promise already
C15_Witness ==
    /\ Inferred(AsyncReturnsPromise) /\ pc = "ok"
    /\ Len(ctx.lams) = 1
    /\ IsPromiseAlias(ctx.lams[1].body) /\ ctx.lams[1].rt = ctx.lams[1].body

OkArgs(e) == SelectSeq(e.args, LAMBDA a : a.st = "ok")

\* C16: an argument of an Application that fails to infer does not make the
\* Application fail: every argument is inferred, the parameters of the
\* call-site Lam are the types of the arguments that were inferred, in their
\* order, the substitutions composed are the unifier, those of the same
\* arguments and that of the callee, and once the callee is inferred the
\* Application fails only when the call-site Lam does not unify.
C16_AppToleratesFailingArgs ==
    \A i \in DOMAIN ctx.apps :
        LET e == ctx.apps[i]
            ok == OkArgs(e)
        IN /\ e.st \in {"ok", "err"}
           /\ Len(e.args) = Len(e.node.es) - 1
           /\ e.params = [j \in DOMAIN ok |-> ok[j].t]
           /\ e.st = "err" => ~e.unified
           /\ e.st = "ok" =>
                 /\ e.unified
                 /\ Len(e.ss) = Len(ok) + 2
                 /\ SubSeq(e.ss, 2, Len(ok) + 1) = [j \in DOMAIN ok |-> ok[j].s]
                 /\ e.ss[Len(e.ss)] = e.lam_s

\* the names a pattern introduces, one entry per sub-pattern that binds
RECURSIVE PatNameSeq(_)
PatNameSeq(pat) ==
    CASE pat.k \in {"Ident", "Is"} -> <<pat.name>>
      [] pat.k = "Object" ->
            Flatten([i \in DOMAIN pat.kinds |->
                        IF pat.kinds[i] = "Assign" THEN <<pat.names[i]>>
                        ELSE PatNameSeq(pat.ps[i])])
      [] OTHER -> Flatten([i \in DOMAIN pat.ps |-> PatNameSeq(pat.ps[i])])

HasDuplicateName(pat) == Len(PatNameSeq(pat)) # Cardinality(Range(PatNameSeq(pat)))

\* C17: infer_pattern returns Err, and no bindings, for every pattern that
\* introduces a name twice, whatever the shapes of the two sub-patterns.
C17_DuplicateNameIsErr ==
    \A i \in DOMAIN ctx.pats :
        HasDuplicateName(ctx.pats[i].pat) =>
            ctx.pats[i].st = "err" /\ ctx.pats[i].a = <<>>

TypeAnnOf(pat) == IF pat.k \in {"Ident", "Rest", "Object", "Array"} THEN pat.ann ELSE <<>>
NumT == TPrim(0, "number")

\* C18: for a pattern with a type annotation infer_pattern returns the type
\* of the annotation, and each binding is the binding of the pattern walk
\* with the unifier of annotation and structural type applied, which is also
\* the substitution returned.  So
\*   let p: {x: number, y: number} = {x: 5, y: 10, z: 15} gives p : {x: number, y: number},
\*   let a: number = 5 gives a : number,
\*   () => {let x: number = 5; x} is () => number, and
\*   ([x]: [string, boolean]) => x is ([string, boolean]) => string.
C18_AnnotationTypeReturned ==
    /\ \A i \in DOMAIN ctx.pats :
          LET e == ctx.pats[i]
          IN (e.st = "ok" /\ TypeAnnOf(e.pat) # <<>>) =>
                /\ TypeEq(e.t, TypeAnnOf(e.pat)[1])
                /\ DOMAIN e.a = DOMAIN e.new_vars
                /\ \A n \in DOMAIN e.a :
                      /\ e.a[n].qualifiers = e.new_vars[n].qualifiers
                      /\ TypeEq(e.a[n].ty, apply(e.new_vars[n].ty, e.s))
                \* the structural type with the unifier applied is the
                \* annotation, a prefix of it for a shorter array pattern,
                \* or some of its properties for a smaller object pattern
                /\ LET st == apply(e.pat_type, e.s)
                   IN CASE st.k = "Tuple" ->
                             /\ e.t.k = "Tuple" /\ Len(st.ts) <= Len(e.t.ts)
                             /\ \A j \in DOMAIN st.ts : TypeEq(st.ts[j], e.t.ts[j])
                        [] st.k = "Object" ->
                             /\ e.t.k = "Object"
                             /\ \A j \in DOMAIN st.props :
                                   \E m \in DOMAIN e.t.props :
                                       /\ e.t.props[m].name = st.props[j].name
                                       /\ TypeEq(e.t.props[m].ty, st.props[j].ty)
                        [] OTHER -> TypeEq(st, e.t)
    /\ (pc \in {"run", "ok"} /\ prog # <<>> /\ prog[Len(prog)] = LetPAnnXYZ) =>
          /\ "p" \in DOMAIN ctx.values
          /\ ctx.values["p"].qualifiers = <<>>
          /\ TypeEq(ctx.values["p"].ty, AnnXYNum)
    /\ (pc \in {"run", "ok"} /\ prog # <<>> /\ prog[Len(prog)] = LetAAnn) =>
          /\ "a" \in DOMAIN ctx.values
          /\ SchemeEq(ctx.values["a"], SchemeFrom(NumT))
    /\ (pc # "init" /\ prog # <<>> /\ prog[Len(prog)] \in {LetPAnnXYZ, LetAAnn}) =>
          pc \in {"run", "ok"}
    /\ Inferred(InnerLetAnn) =>
          pc = "ok" /\ SchemeEq(res, SchemeFrom(TLam(0, <<>>, NumT, FALSE)))
    /\ Inferred(LamIdAnn) =>
          pc = "ok" /\ SchemeEq(res, SchemeFrom(TLam(0, <<NumT>>, NumT, FALSE)))
    /\ Inferred(LamIncompleteAnn) =>
          pc = "ok" /\ SchemeEq(res, SchemeFrom(TLam(0, <<AnnStrBool>>, TPrim(0, "string"), FALSE)))
    /\ Inferred(LamTupleAnn) =>
          pc = "ok" /\ SchemeEq(res, SchemeFrom(TLam(0, <<AnnStrBool>>, AnnStrBool, FALSE)))

\* let p: {x: number, y: number} = {x: 5, y: 10, z: 15} has returned
C18_Witness ==
    /\ pc = "ok" /\ prog = <<LetPAnnXYZ>>
    /\ Len(ctx.pats) = 1 /\ ctx.pats[1].st = "ok" /\ ctx.pats[1].t.k = "Object"
    /\ ctx.values["p"].ty.k = "Object" /\ Len(ctx.values["p"].ty.props) = 2

\* a let of an array pattern of names without annotation, initialized with a
\* tuple of literals
IsTupleLet(stmt) ==
    /\ IsLet(stmt) /\ stmt.init # <<>>
    /\ stmt.pattern.k = "Array" /\ stmt.pattern.ann = <<>>
    /\ \A i \in DOMAIN stmt.pattern.ps : stmt.pattern.ps[i].k = "Ident"
    /\ ~HasDuplicateName(stmt.pattern)
    /\ stmt.init[1].k = "Tuple"
    /\ \A i \in DOMAIN stmt.init[1].es : stmt.init[1].es[i].k = "Lit"

TooMany == "too many elements to unpack"

\* C19: the step of infer_prog for let [n1, .., nk] = [e1, .., em] with
\* literals e: when k <= m it succeeds and binds each ni to the type of ei,
\* leaving the other values as they were; when k > m it fails with the error
\* "too many elements to unpack" and leaves values as it was.
C19_TupleDestructuring ==
    [][(pc = "run" /\ prog' # prog /\ IsTupleLet(prog'[Len(prog')])) =>
          LET stmt == prog'[Len(prog')]
              names == stmt.pattern.ps
              elems == stmt.init[1].es
          IN IF Len(names) <= Len(elems)
             THEN /\ pc' = "run"
                  /\ DOMAIN ctx'.values = DOMAIN ctx.values \cup PatNames(stmt.pattern)
                  /\ \A i \in DOMAIN names :
                        SchemeEq(ctx'.values[names[i].name], SchemeFrom(LitType(elems[i])))
                  /\ \A n \in DOMAIN ctx.values \ PatNames(stmt.pattern) :
                        ctx'.values[n] = ctx.values[n]
             ELSE /\ pc' = "err" /\ error' = TooMany
                  /\ ctx'.values = ctx.values]_vars

\* let [a, b] = [5, true, "hello"] has returned: the third element is ignored
C19_Witness ==
    /\ pc = "ok" /\ prog = <<LetTuple2>>
    /\ DOMAIN ctx.values = {"a", "b"}
    /\ ctx.values["a"].ty.k = "Lit" /\ ctx.values["a"].ty.name = "5"
    /\ ctx.values["b"].ty.k = "Lit" /\ ctx.values["b"].ty.name = "true"

\* an object expression of key-value properties with literal values
IsLitObj(e) ==
    /\ e.k = "Obj"
    /\ \A i \in DOMAIN e.kinds : e.kinds[i] = "KeyValue" /\ e.es[i].k = "Lit"
\* let {n1, .., nk} = {..}: shorthand properties, no annotation
IsObjLet(stmt) ==
    /\ IsLet(stmt) /\ stmt.init # <<>> /\ IsLitObj(stmt.init[1])
    /\ stmt.pattern.k = "Object" /\ stmt.pattern.ann = <<>>
    /\ \A i \in DOMAIN stmt.pattern.kinds : stmt.pattern.kinds[i] = "Assign"
    /\ ~HasDuplicateName(stmt.pattern)
\* let p: {..} = {..}: a name with an object annotation
IsAnnObjLet(stmt) ==
    /\ IsLet(stmt) /\ stmt.init # <<>> /\ IsLitObj(stmt.init[1])
    /\ stmt.pattern.k = "Ident" /\ stmt.pattern.ann # <<>>
    /\ stmt.pattern.ann[1].k = "Object"
\* the property names of the pattern or annotation side, in their order
NamedSide(stmt) ==
    IF stmt.pattern.k = "Object" THEN stmt.pattern.names
    ELSE [i \in DOMAIN stmt.pattern.ann[1].props |-> stmt.pattern.ann[1].props[i].name]
\* those that the initializer does not have
MissingProps(stmt) == SelectSeq(NamedSide(stmt), LAMBDA n : n \notin Range(stmt.init[1].names))
\* the literal of property n of the initializer
InitProp(stmt, n) ==
    stmt.init[1].es[CHOOSE i \in DOMAIN stmt.init[1].names : stmt.init[1].names[i] = n]
MissingMsg(n) == "Property '" \o n \o "' missing"

\* C20: the step of infer_prog for let {n1, .., nk} = {..} and for
\* let p: {n1: T1, .., nk: Tk} = {..} with a literal object: when the
\* initializer lacks one of n1..nk the step fails with the error that names
\* the first of them that is missing, and values stays as it was; otherwise
\* it succeeds, whatever other properties the initializer has, and binds
\* each ni to the type of that property, or p to the annotation.
C20_MissingProperty ==
    /\ [][(/\ pc = "run" /\ prog' # prog
           /\ IsObjLet(prog'[Len(prog')]) \/ IsAnnObjLet(prog'[Len(prog')])) =>
             LET stmt == prog'[Len(prog')]
             IN IF MissingProps(stmt) # <<>>
                THEN /\ pc' = "err" /\ error' = MissingMsg(MissingProps(stmt)[1])
                     /\ ctx'.values = ctx.values
                ELSE /\ pc' = "run"
                     /\ DOMAIN ctx'.values = DOMAIN ctx.values \cup PatNames(stmt.pattern)
                     /\ IF IsObjLet(stmt)
                        THEN \A n \in PatNames(stmt.pattern) :
                                SchemeEq(ctx'.values[n], SchemeFrom(LitType(InitProp(stmt, n))))
                        ELSE SchemeEq(ctx'.values[stmt.pattern.name],
                                      SchemeFrom(stmt.pattern.ann[1]))]_vars
    /\ [](Inferred(LamMissingC) => pc = "err" /\ error = MissingMsg("c"))
    /\ [](Inferred(LamPartialAnn) =>
            pc = "ok" /\ SchemeEq(res, SchemeFrom(TLam(0, <<AnnXYNum>>, NumT, FALSE))))

\* let {foo} = {x: 5, y: 10} has failed
C20_Witness ==
    /\ pc = "err" /\ prog = <<LetFoo>>
    /\ error = "Property 'foo' missing"
    /\ ctx.pats # <<>> /\ ctx.pats[1].st = "ok"
    /\ DOMAIN ctx.values = {}

\* the first property of an object type with the name
PropOf(obj, name) ==
    obj.props[CHOOSE i \in DOMAIN obj.props :
                 obj.props[i].name = name /\ \A j \in 1..(i - 1) : obj.props[j].name # name]
HasProp(obj, name) == \E i \in DOMAIN obj.props : obj.props[i].name = name
\* ty | undefined
IsOptionalOf(t, ty) ==
    /\ t.k = "Union" /\ Len(t.ts) = 2 /\ TypeEq(t.ts[1], ty)
    /\ t.ts[2].k = "Prim" /\ t.ts[2].name = "undefined"

\* C21: a Member expression on an object type fails with an Err when the
\* object has no such property and otherwise yields the type of the property,
\* or ty | undefined for an optional one; on an alias of an object type it
\* fails in the same way and otherwise yields a Member projection, not the
\* type of the property.
C21_MemberAccess ==
    \A i \in DOMAIN ctx.mems :
        LET e == ctx.mems[i]
        IN CASE e.obj_t.k = "Object" ->
                  IF HasProp(e.obj_t, e.node.name)
                  THEN LET pr == PropOf(e.obj_t, e.node.name)
                       IN /\ e.st = "ok"
                          /\ IF pr.optional THEN IsOptionalOf(e.t, pr.ty)
                             ELSE e.t = pr.ty
                  ELSE e.st = "err"
             [] e.obj_t.k = "Alias" /\ e.obj_t.name \in DOMAIN e.types
                   /\ e.types[e.obj_t.name].ty.k = "Object" ->
                  IF HasProp(e.types[e.obj_t.name].ty, e.node.name)
                  THEN e.st = "ok" /\ e.t.k = "Member"
                  ELSE e.st = "err"
             [] OTHER -> TRUE

\* C22: at every Ok that infer returns, for every form of expression, each
\* binding of values is the binding that the arm left with the substitution
\* returned applied to it.
C22_SubstAppliedToValues ==
    \A i \in DOMAIN ctx.rets :
        LET e == ctx.rets[i]
        IN /\ DOMAIN e.after = DOMAIN e.before
           /\ \A n \in DOMAIN e.before :
                 /\ e.after[n].qualifiers = e.before[n].qualifiers
                 /\ e.after[n].ty =
                       apply(e.before[n].ty,
                             Restrict(e.s, DOMAIN e.s \ Range(e.before[n].qualifiers)))

\* the members of a union, or the type itself
Members(t) == IF t.k = "Union" THEN Range(t.ts) ELSE {t}
SameMembers(a, b) ==
    /\ \A x \in Members(a) : \E y \in Members(b) : TypeEq(x, y)
    /\ \A y \in Members(b) : \E x \in Members(a) : TypeEq(x, y)

\* C23: when the substitutions of the two branches of an if/else bind one id
\* to different types, the substitution returned binds the id to the union
\* of the two types; an id bound by one branch only stays bound.
C23_BranchesUnioned ==
    \A i \in DOMAIN ctx.ifs :
        LET e == ctx.ifs[i]
        IN /\ \A id \in (DOMAIN e.s_then) \cap (DOMAIN e.s_else) :
                 ~TypeEq(e.s_then[id], e.s_else[id]) =>
                     /\ id \in DOMAIN e.s
                     /\ SameMembers(e.s[id],
                                    union_types(e.s_then[id], e.s_else[id], ctx).t)
           /\ \A id \in ((DOMAIN e.s_then) \cup (DOMAIN e.s_else))
                          \ ((DOMAIN e.s_then) \cap (DOMAIN e.s_else)) :
                 id \in DOMAIN e.s

\* the candidates of union_types(a, b): the members of both inputs, nested
\* unions opened
RECURSIVE Candidates(_)
Candidates(t) ==
    IF t.k = "Union" THEN UNION {Candidates(t.ts[i]) : i \in DOMAIN t.ts} ELSE {t}
\* a literal whose primitive is among the candidates
Subsumed(t, cands) ==
    t.k = "Lit" /\ \E p \in cands : p.k = "Prim" /\ p.name = LitKindPrim(t.sub)

\* C24: union_types(t1, t2) keeps, up to structural equality, the candidates
\* of both inputs that are not literals subsumed by a primitive; the result
\* is the one candidate left, or a Union of at least two members, none of
\* them a Union, no two structurally equal, no literal next to its primitive.
C24_UnionTypesShape ==
    pc \in {"union1", "union2"} =>
        LET cands == Candidates(arg[1]) \cup Candidates(arg[2])
            kept == {c \in cands : ~Subsumed(c, cands)}
            r == out[1]
            ms == Members(r)
        IN /\ \A c \in kept : \E m \in ms : TypeEq(m, c)
           /\ \A m \in ms : \E c \in kept : TypeEq(m, c)
           /\ r.k = "Union" =>
                 /\ Len(r.ts) >= 2
                 /\ \A i \in DOMAIN r.ts : r.ts[i].k # "Union"
                 /\ \A i, j \in DOMAIN r.ts : i # j => ~TypeEq(r.ts[i], r.ts[j])
                 /\ \A i \in DOMAIN r.ts : ~Subsumed(r.ts[i], ms)
           /\ r.k # "Union" => \A c, d \in kept : TypeEq(c, d)

\* C24 witness: a nested union against a primitive that subsumes one of its
\* literals and a literal that repeats another one gave a union
C24_Witness ==
    /\ pc = "union1"
    /\ arg[1] \in UnionNested
    /\ arg[1].ts[2].k = "Prim"
    /\ arg[2] = TLit(3, "Num", "5")
    /\ out[1].k = "Union"
    /\ Len(out[1].ts) = 2

\* C25: union_types(a, b) and union_types(b, a) list the same members in the
\* same order.
C25_UnionOrderDeterministic ==
    pc = "union2" =>
        /\ out[1].k = out[2].k
        /\ Len(out[1].ts) = Len(out[2].ts)
        /\ \A i \in DOMAIN out[1].ts : TypeEq(out[1].ts[i], out[2].ts[i])

\* the members of an intersection, or the type itself
Parts(t) == IF t.k = "Intersection" THEN Range(t.ts) ELSE {t}
\* the types that the Object inputs of a list give to a property name
ContributedTo(types, name) ==
    UNION {{types[i].props[j].ty : j \in {j \in DOMAIN types[i].props :
                                              types[i].props[j].name = name}} :
           i \in {i \in DOMAIN types : types[i].k = "Object"}}
InputNames(types) ==
    UNION {{types[i].props[j].name : j \in DOMAIN types[i].props} :
           i \in {i \in DOMAIN types : types[i].k = "Object"}}

\* C26: simplify_intersection passes the non-object inputs through and
\* merges the Object inputs into one object with one property per name; a
\* name given one type keeps it, a name given several distinct types gets
\* their simplified intersection, in which competing objects are merged.
C26_SimplifyIntersectionMerges ==
    pc = "inter1" =>
        LET r == out[1]
            objs == {m \in Parts(r) : m.k = "Object"}
            names == InputNames(arg)
        IN /\ {m \in Parts(r) : m.k # "Object"} = {arg[i] : i \in {i \in DOMAIN arg : arg[i].k # "Object"}}
           /\ names # {} =>
                 /\ Cardinality(objs) = 1
                 /\ \A o \in objs :
                       /\ {o.props[j].name : j \in DOMAIN o.props} = names
                       /\ \A j, k \in DOMAIN o.props :
                             j # k => o.props[j].name # o.props[k].name
                       /\ \A j \in DOMAIN o.props :
                             LET given == ContributedTo(arg, o.props[j].name)
                                 ty == o.props[j].ty
                             IN IF \A a, b \in given : TypeEq(a, b)
                                THEN \E a \in given : TypeEq(ty, a)
                                ELSE /\ \A a \in given : a.k # "Object" =>
                                            \E m \in Parts(ty) : TypeEq(m, a)
                                     /\ Cardinality({m \in Parts(ty) : m.k = "Object"}) <= 1

\* C27: simplify_intersection returns a bare type or an Intersection of at
\* least two members.
C27_IntersectionHasTwoMembers ==
    pc = "inter1" => (out[1].k = "Intersection" => Len(out[1].ts) >= 2)

\* no Object type within t has two properties of one name
RECURSIVE UniqueNames(_)
UniqueNames(t) ==
    /\ \A i, j \in DOMAIN t.props : i # j => t.props[i].name # t.props[j].name
    /\ \A i \in DOMAIN t.ts : UniqueNames(t.ts[i])
    /\ \A i \in DOMAIN t.ret : UniqueNames(t.ret[i])
    /\ \A i \in DOMAIN t.props : UniqueNames(t.props[i].ty)

\* C28: in every type that inference returns or stores, the properties of an
\* Object type have pairwise different names.
C28_PropertyNamesUnique ==
    /\ UniqueNames(res.ty)
    /\ \A n \in DOMAIN ctx.values : UniqueNames(ctx.values[n].ty)

\* C29: a call of infer that returns Ok or Err leaves the names of the
\* caller's values, the caller's types and the caller's is_async as they
\* were at the call.
C29_ScopeIsolation ==
    \A i \in DOMAIN ctx.calls :
        LET c == ctx.calls[i]
        IN c.st \in {"ok", "err"} =>
              /\ c.names[2] = c.names[1]
              /\ c.types[2] = c.types[1]
              /\ c.is_async[2] = c.is_async[1]

\* C29 witness: an async lambda with a parameter, called in a Context that
\* is not async, returned Ok, and a let in its body, called with the
\* parameter bound, returned Ok
C29_Witness ==
    /\ \E i \in DOMAIN ctx.calls :
          LET c == ctx.calls[i]
          IN /\ c.node.k = "Lambda" /\ c.node.flag /\ c.node.pats # <<>>
             /\ c.st = "ok" /\ ~c.is_async[1]
    /\ \E i \in DOMAIN ctx.calls :
          LET c == ctx.calls[i]
          IN c.node.k = "Let" /\ c.st = "ok" /\ c.names[1] # {} /\ c.is_async[1]

\* C30: a statement of infer_prog leaves the scheme of every top-level name
\* that it does not bind itself as it was: the name stays bound, with the
\* same qualifiers and the same type.
C30_TopLevelSchemeStable ==
    [][(pc = "run" /\ prog' # prog) =>
          \A n \in DOMAIN ctx.values :
              ~Binds(prog'[Len(prog')], n) =>
                  /\ n \in DOMAIN ctx'.values
                  /\ ctx'.values[n] = ctx.values[n]]_vars

\* C30 witness: after let I = (x) => x, the statement let a = I(5) was
\* inferred: the call returned a substitution that is not empty while I was
\* bound, and I still has its scheme with one qualifier
C30_Witness ==
    /\ pc = "run"
    /\ prog = <<SLet(PIdent("I"), LamI), SLet(PIdent("a"), EApp(EIdent("I"), <<Lit5>>))>>
    /\ ctx.values["I"].qualifiers = <<0>>
    /\ \E i \in DOMAIN ctx.rets :
          /\ ctx.rets[i].node = EApp(EIdent("I"), <<Lit5>>)
          /\ DOMAIN ctx.rets[i].s # {}
          /\ "I" \in DOMAIN ctx.rets[i].before

====
